---- MODULE Spec2Model ----
(***************************************************************************)
(* Force-displacement tester: the force gauge's stream decoder             *)
(* (ender_fdm/threaded_force_meter.py), the single-slot sample channel it  *)
(* shares with the control loop, and the control loop's force-feedback     *)
(* primitives (ender_fdm/force_gauge.py).                                  *)
(*                                                                         *)
(* Units.  Forces are integers in 1e-5 gauge units (a 6-byte record has at *)
(* most five fractional digits), so 3.5 is 350000.                         *)
(***************************************************************************)
EXTENDS Integers, Sequences, FiniteSets, TLC

VARIABLES
  \* ThreadedForceMeter (the protocol object)
  buffer,      \* self.buffer: bytes received and not yet framed
  _value,      \* self._value: None or the last published force
  timestamp,   \* self.timestamp
  new_value,   \* self.new_value
  ready,       \* self.ready
  \* the serial line and pyserial's ReaderThread that owns the protocol
  wire,        \* bytes sent by the gauge, not yet handed to data_received
  rt,          \* "run": reading; "raised": data_received raised, connection_lost
               \* is due; "dead": the thread has ended
  rterr,       \* the exception that ended the thread, "none" if none
  clock,       \* the last value time() returned
  \* history of the current connection (not program state)
  cur,         \* the bytes of the record under way, counted in sixes from the
               \* first '-' handed to data_received
  last,        \* the last record completed, counted so
  recs,        \* records completed during the last data_received call
  pubs,        \* samples published by the last data_received call
  overloaded,  \* a decoded magnitude reached MAX_FORCE
  struck,      \* the functions the control thread was in when it did
  emitted,     \* records the gauge has sent
  conns,       \* connections made so far
  changes,     \* times the force the gauge reports has changed, where counted
  slips,       \* bytes the line has lost or gained since the decoder aligned
  \* the control thread (FDMeter)
  stack,       \* its call stack, innermost frame first
  ret,         \* the value the last finished call returned
  fgerr,       \* the exception that ended the control thread, "none" if none
  z,           \* self.z
  zeroed,      \* self.zeroed
  sent,        \* motion commands (G0) written to the printer so far
  pos,         \* the sum of their signed distances (not program state)
  inflight,    \* commands written that the printer has not answered yet
  acks,        \* 'ok' answers of the printer waiting to be read
  \* history of the control thread (not program state)
  feed,        \* the samples get_force has returned, when they are recorded
  retId,       \* the publication number of the sample in ret
  \* the decoder thread inside the value setter, statement by statement
  setter,      \* <<>> outside the setter, else <<pc, argument>>
  valueId,     \* the publication number of the sample in _value
  nextId       \* samples the setter has been called with

protoVars == <<buffer, _value, timestamp, new_value, ready>>
lineVars  == <<wire, rt, rterr>>
histVars  == <<cur, last, recs, pubs, overloaded, struck, emitted, conns, changes,
               slips>>
actVars   == <<sent, pos, inflight, acks>>
fgVars    == <<stack, ret, fgerr, z, zeroed, actVars, feed, retId>>
setVars   == <<setter, valueId, nextId>>
vars      == <<protoVars, lineVars, clock, histVars, fgVars, setVars>>

\* the functions on the control thread's call stack
Running == { stack[i].fn : i \in 1..Len(stack) }

-----------------------------------------------------------------------------
(* Bounds of the model *)

\* records the gauge sends within one connection
MaxEmit == 2
\* connections (the first one and the reconnections)
MaxConn == 2

-----------------------------------------------------------------------------
(* Program constants *)

\* MAX_FORCE = 3.5, in 1e-5 units
MAX_FORCE == 350000

\* the record width data_received slices at
RecLen == 6

-----------------------------------------------------------------------------
(* Bytes and records *)

\* the digits that occur on the line
Digits == {"0", "3", "5"}

\* what the gauge sends: fixed-width signed decimal records, no delimiter
Records ==
  { <<"-", "0", ".", "0", "0", "0">>,
    <<"+", "0", ".", "5", "0", "0">>,
    <<"-", "3", ".", "5", "0", "0">> }

None == <<>>
Some(v) == <<v>>

Abs(v) == IF v < 0 THEN -v ELSE v

Has(s, b) == \E i \in 1..Len(s) : s[i] = b

\* bytes.index(b)
Index(s, b) == CHOOSE i \in 1..Len(s) : s[i] = b /\ \A j \in 1..(i-1) : s[j] # b

\* s[i:] with Python's 0-based start i
From(s, i) == SubSeq(s, i + 1, Len(s))

DigitVal(d) == CASE d = "0" -> 0 [] d = "3" -> 3 [] d = "5" -> 5

RECURSIVE DigitsVal(_)
DigitsVal(s) ==
  IF s = <<>> THEN 0
  ELSE 10 * DigitsVal(SubSeq(s, 1, Len(s) - 1)) + DigitVal(s[Len(s)])

RECURSIVE Pow10(_)
Pow10(n) == IF n = 0 THEN 1 ELSE 10 * Pow10(n - 1)

AllDigits(s) == \A i \in 1..Len(s) : s[i] \in Digits

\* float() raising ValueError
BadFloat == <<0, 0>>

\* float(bytes) on the byte alphabet above: [sign] digits [. digits] or
\* [sign] . digits ; anything else raises ValueError.  The result is in 1e-5
\* units.
float(b) ==
  LET signed == Len(b) > 0 /\ b[1] \in {"-", "+"}
      body   == IF signed THEN Tail(b) ELSE b
      sgn    == IF signed /\ b[1] = "-" THEN -1 ELSE 1
      dot    == IF Has(body, ".") THEN Index(body, ".") ELSE Len(body) + 1
      ip     == SubSeq(body, 1, dot - 1)
      fp     == SubSeq(body, dot + 1, Len(body))
  IN IF /\ AllDigits(ip) /\ AllDigits(fp)
        /\ Len(ip) + Len(fp) > 0
        /\ Len(fp) <= 5
     THEN Some(sgn * (DigitsVal(ip) * Pow10(5) + DigitsVal(fp) * Pow10(5 - Len(fp))))
     ELSE BadFloat

-----------------------------------------------------------------------------
(* ThreadedForceMeter *)

Self ==
  [buffer |-> buffer, _value |-> _value, timestamp |-> timestamp,
   new_value |-> new_value, ready |-> ready]

\* __init__
init_ ==
  [buffer |-> <<>>, _value |-> None, timestamp |-> 0,
   new_value |-> FALSE, ready |-> FALSE]

\* connection_lost: self.__init__()
connection_lost_buffer_only(self) == [self EXCEPT !.buffer = <<>>]
connection_lost(self) == init_

\* the check at the head of the value setter
exceeds_above(v) == Abs(v) > MAX_FORCE
exceeds(v) == Abs(v) >= MAX_FORCE

\* value.setter: the object after the call, the exception raised, and (for
\* the history) the argument and whether the sample was stored
value_setter_check_last(self, v, now) ==
  [self |-> [self EXCEPT !.timestamp = now, !._value = Some(v), !.new_value = TRUE],
   exc |-> IF exceeds(v) THEN "overload" ELSE "none",
   arg |-> Some(v), pub |-> TRUE]
value_setter(self, v, now) ==
  IF exceeds(v)
  THEN [self |-> self, exc |-> "overload", arg |-> Some(v), pub |-> FALSE]
  ELSE [self |-> [self EXCEPT !.timestamp = now, !._value = Some(v),
                              !.new_value = TRUE],
        exc |-> "none", arg |-> Some(v), pub |-> TRUE]

\* the alignment branch of data_received, on the extended buffer
align(self, ext) ==
  IF self.ready THEN [self EXCEPT !.buffer = ext]
  ELSE IF Has(ext, "-")
       THEN [self EXCEPT !.buffer = From(ext, Index(ext, "-") - 1), !.ready = TRUE]
       ELSE IF Len(ext) > RecLen
            THEN [self EXCEPT !.buffer = From(ext, RecLen)]
            ELSE [self EXCEPT !.buffer = ext]

\* the record data_received decodes: the last complete one
first_record(buf) == SubSeq(buf, 1, RecLen)
last_record(buf) ==
  LET rest_pos == RecLen * (Len(buf) \div RecLen)
  IN SubSeq(buf, rest_pos - RecLen + 1, rest_pos)

\* whether data_received decodes at all
decodes_unaligned(self) == Len(self.buffer) >= RecLen
decodes(self) == self.ready /\ Len(self.buffer) >= RecLen

\* a data_received that takes one record off the buffer, however many are
\* complete
data_received_takes_one(self, data, now) ==
  LET a == align(self, self.buffer \o data)
  IN IF ~decodes(a)
     THEN [self |-> a, exc |-> "none", arg |-> None, pub |-> FALSE]
     ELSE LET f == float(last_record(a.buffer))
          IN IF Len(f) # 1
             THEN [self |-> a, exc |-> "parse", arg |-> None, pub |-> FALSE]
             ELSE LET s == value_setter(a, f[1], now)
                  IN IF s.exc # "none" THEN s
                     ELSE [s EXCEPT !.self.buffer = From(a.buffer, RecLen)]

\* data_received(data) at time now: the object after the call and the
\* exception it raised.  An exception leaves the statements after it undone.
data_received(self, data, now) ==
  LET a == align(self, self.buffer \o data)
  IN IF ~decodes(a)
     THEN [self |-> a, exc |-> "none", arg |-> None, pub |-> FALSE]
     ELSE LET rest_pos == RecLen * (Len(a.buffer) \div RecLen)
              f == float(last_record(a.buffer))
          IN IF Len(f) # 1
             THEN [self |-> a, exc |-> "parse", arg |-> None, pub |-> FALSE]
             ELSE LET s == value_setter(a, f[1], now)
                  IN IF s.exc # "none" THEN s
                     ELSE [s EXCEPT !.self.buffer = From(a.buffer, rest_pos)]

-----------------------------------------------------------------------------
(* The serial line *)

\* The gauge sends one more record; at most two records wait on the line.
GaugeSends(rec) ==
  /\ rt \in {"run", "raised"}
  /\ emitted < MaxEmit
  /\ Len(wire) < RecLen
  /\ wire' = wire \o rec
  /\ emitted' = emitted + 1
  /\ UNCHANGED <<protoVars, rt, rterr, clock, cur, last, recs, pubs, overloaded, struck, conns>>
  /\ UNCHANGED <<changes, slips, fgVars, setVars>>

\* time(): every reading of the clock is later than the one before
time == clock + 1

\* what the reader thread finds on the line after reset_input_buffer(): the
\* stream from anywhere inside a record of the gauge at rest, or nothing yet
AtRest == <<"-", "0", ".", "0", "0", "0">>
LineStarts == { From(AtRest, k) : k \in 0..RecLen }

\* The history's own framing of the stream, byte by byte: nothing before the
\* first '-', then a record every RecLen bytes.  f is [cur, last, recs] and
\* al says whether the first '-' has been seen.
RECURSIVE Framed(_, _, _)
Framed(f, al, data) ==
  IF data = <<>> THEN f
  ELSE LET b == Head(data)
       IN IF ~al /\ b # "-" THEN Framed(f, FALSE, Tail(data))
          ELSE LET c == Append(f.cur, b)
               IN IF Len(c) = RecLen
                  THEN Framed([cur |-> <<>>, last |-> c, recs |-> f.recs + 1],
                              TRUE, Tail(data))
                  ELSE Framed([f EXCEPT !.cur = c], TRUE, Tail(data))

\* ReaderThread.run: read what is waiting (any nonempty prefix of it) and hand
\* it to data_received; an exception out of it ends the loop.
DataReceived(n) ==
  /\ rt = "run"
  /\ n \in 1..Len(wire)
  /\ LET data == SubSeq(wire, 1, n)
         r    == data_received(Self, data, time)
     IN /\ buffer'    = r.self.buffer
        /\ _value'    = r.self._value
        /\ timestamp' = r.self.timestamp
        /\ new_value' = r.self.new_value
        /\ ready'     = r.self.ready
        /\ rt'        = IF r.exc = "none" THEN "run" ELSE "raised"
        /\ rterr'     = r.exc
        /\ LET f == Framed([cur |-> cur, last |-> last, recs |-> 0],
                            cur # <<>> \/ last # <<>>, data)
           IN cur' = f.cur /\ last' = f.last /\ recs' = f.recs
        /\ pubs'      = IF r.pub THEN 1 ELSE 0
        /\ overloaded' = (overloaded \/ (r.arg # None /\ Abs(r.arg[1]) >= MAX_FORCE))
        /\ struck'    = IF ~overloaded /\ overloaded' THEN Running ELSE struck
        /\ clock'     = IF r.pub THEN time ELSE clock
  /\ wire' = From(wire, n)
  /\ UNCHANGED <<emitted, conns, changes, slips, fgVars, setVars>>

\* ReaderThread.run after its loop: connection_lost(error).  The loop ends on
\* an exception out of data_received, on a serial error or on close().
ConnectionLost(cause) ==
  /\ \/ rt = "raised" /\ cause = rterr
     \/ rt = "run" /\ cause \in {"serial", "none"}
  /\ LET s == connection_lost(Self)
     IN /\ buffer'    = s.buffer
        /\ _value'    = s._value
        /\ timestamp' = s.timestamp
        /\ new_value' = s.new_value
        /\ ready'     = s.ready
  /\ rt' = "dead"
  /\ rterr' = cause
  /\ wire' = <<>>
  /\ UNCHANGED <<clock, histVars, fgVars, setVars>>

\* A new reader thread is started on the port (connection_made); the protocol
\* object is as connection_lost left it.
Reconnect(start) ==
  /\ rt = "dead"
  /\ conns < MaxConn
  /\ rt' = "run"
  /\ rterr' = "none"
  /\ wire' = start
  /\ cur' = <<>>
  /\ last' = <<>>
  /\ recs' = 0
  /\ pubs' = 0
  /\ overloaded' = FALSE
  /\ struck' = {}
  /\ emitted' = 0
  /\ conns' = conns + 1
  /\ UNCHANGED <<protoVars, clock, changes, slips, fgVars, setVars>>

-----------------------------------------------------------------------------
(* The control thread: FDMeter *)

Top == Head(stack)

\* the innermost frame replaced by f
Replace(f) == <<f>> \o Tail(stack)

\* the innermost frame at another position
At(pc) == Replace([Top EXCEPT !.pc = pc])

\* the control thread is at pc of fn; once an exception has gone unhandled it
\* is nowhere (stack then keeps the frames of the traceback)
In(fn, pc) == fgerr = "none" /\ stack # <<>> /\ Top.fn = fn /\ Top.pc = pc

\* the innermost frame calls callee and goes on at pc when it returns
Call(callee, pc) == <<callee>> \o At(pc)

get_force == [fn |-> "get_force", pc |-> "wait"]

\* get_force: `while not self.force.new_value: pass` leaves the loop
GfWait ==
  /\ In("get_force", "wait")
  /\ new_value
  /\ stack' = At("clear")
  /\ UNCHANGED <<protoVars, lineVars, clock, histVars, setVars>>
  /\ UNCHANGED <<ret, fgerr, z, zeroed, actVars, feed, retId>>

\* the value property, first statement: self.new_value = False
GfClear ==
  /\ In("get_force", "clear")
  /\ new_value' = FALSE
  /\ stack' = At("read")
  /\ UNCHANGED <<buffer, _value, timestamp, ready, lineVars, clock, histVars, setVars>>
  /\ UNCHANGED <<ret, fgerr, z, zeroed, actVars, feed, retId>>

\* the value property, second statement: return self._value
GfRead(keep) ==
  /\ In("get_force", "read")
  /\ ret' = _value
  /\ retId' = valueId
  /\ feed' = IF keep THEN Append(feed, _value) ELSE feed
  /\ stack' = Tail(stack)
  /\ UNCHANGED <<protoVars, lineVars, clock, histVars, setVars>>
  /\ UNCHANGED <<fgerr, z, zeroed, actVars>>

\* a control loop that calls get_force over and over; n counts the calls (up
\* to 2), prev is the publication number the previous call returned and seen
\* the number of publications finished when the call was made
control_loop == [fn |-> "control_loop", pc |-> "call", n |-> 0, prev |-> 0, seen |-> 0]

\* calls of the control loop that are counted
MaxCount == 2

Published == IF setter = <<>> THEN nextId ELSE nextId - 1

ControlLoop(count) ==
  /\ In("control_loop", "call")
  /\ stack' = <<get_force>> \o
               Replace([Top EXCEPT !.n = IF count /\ @ < MaxCount THEN @ + 1 ELSE @,
                                   !.prev = retId, !.seen = Published])
  /\ UNCHANGED <<protoVars, lineVars, clock, histVars, setVars>>
  /\ UNCHANGED <<ret, fgerr, z, zeroed, actVars, feed, retId>>

\* data_received decodes a record standing for force v while the control
\* thread runs: the value setter as one step, and the end of the reader loop
\* when it raises.  The runs of the control thread read no timestamp, and
\* time stands still in them.
Publish(v) ==
  /\ rt = "run"
  /\ LET s == value_setter(Self, v, time)
     IN /\ _value' = s.self._value
        /\ timestamp' = s.self.timestamp
        /\ new_value' = s.self.new_value
        /\ rt' = IF s.exc = "none" THEN "run" ELSE "raised"
        /\ rterr' = s.exc
        /\ overloaded' = (overloaded \/ Abs(v) >= MAX_FORCE)
        /\ struck' = IF ~overloaded /\ overloaded' THEN Running ELSE struck
  /\ UNCHANGED <<buffer, ready, wire, clock, fgVars, setVars>>
  /\ UNCHANGED <<cur, last, recs, pubs, emitted, conns, slips>>

Decoded(v) == Publish(v) /\ changes' = changes

\* changes of the reported force that the runs of zero_z_axis follow
MaxChanges == 5

\* the same, the changes of the reported force being counted, for a gauge
\* whose force changes max times at most
DecodedFew(v, max) ==
  /\ Publish(v)
  /\ changes' = IF _value = None \/ _value = Some(v) THEN changes ELSE changes + 1
  /\ changes' <= max

\* a step of the control thread that changes its stack only
Step(frames) ==
  /\ stack' = frames
  /\ UNCHANGED <<protoVars, lineVars, clock, histVars, setVars>>
  /\ UNCHANGED <<ret, fgerr, z, zeroed, actVars, feed, retId>>

\* return v from the innermost frame
Return(v) ==
  /\ stack' = Tail(stack)
  /\ ret' = v
  /\ UNCHANGED <<protoVars, lineVars, clock, histVars, setVars>>
  /\ UNCHANGED <<fgerr, z, zeroed, actVars, feed, retId>>

\* stable_force(n_same, max_n)
stable_force(n_same, max_n) ==
  [fn |-> "stable_force", pc |-> "start", n_same |-> n_same, max_n |-> max_n,
   same |-> 0, count |-> 0, last |-> None]

\* last = self.get_force()
SfStart ==
  /\ In("stable_force", "start")
  /\ stack' = Call(get_force, "first")
  /\ UNCHANGED <<protoVars, lineVars, clock, histVars, setVars>>
  /\ UNCHANGED <<ret, fgerr, z, zeroed, actVars, feed, retId>>

SfFirst ==
  /\ In("stable_force", "first")
  /\ stack' = Replace([Top EXCEPT !.last = ret, !.pc = "loop"])
  /\ UNCHANGED <<protoVars, lineVars, clock, histVars, setVars>>
  /\ UNCHANGED <<ret, fgerr, z, zeroed, actVars, feed, retId>>

\* while same < n_same: v = self.get_force() ... ; return last
SfLoop ==
  /\ In("stable_force", "loop")
  /\ IF Top.same < Top.n_same
     THEN stack' = Call(get_force, "cmp") /\ ret' = ret
     ELSE stack' = Tail(stack) /\ ret' = Top.last
  /\ UNCHANGED <<protoVars, lineVars, clock, histVars, setVars>>
  /\ UNCHANGED <<fgerr, z, zeroed, actVars, feed, retId>>

\* where an exception raised at the innermost frame is caught: the nearest
\* frame inside a try block, 0 if there is none
Handler == 
  IF \E i \in 1..Len(stack) : stack[i].pc = "try"
  THEN CHOOSE i \in 1..Len(stack) :
         stack[i].pc = "try" /\ \A j \in 1..(i-1) : stack[j].pc # "try"
  ELSE 0

\* raise e: unwind to the handler, or end the control thread
Raise(e) ==
  IF Handler = 0
  THEN fgerr' = e /\ stack' = stack
  ELSE /\ fgerr' = fgerr
       /\ stack' = <<[stack[Handler] EXCEPT !.pc = "except"]>>
                    \o SubSeq(stack, Handler + 1, Len(stack))

\* the loop body after get_force, and the budget check
SfCmp ==
  /\ In("stable_force", "cmp")
  /\ LET f == IF ret # Top.last
              THEN [Top EXCEPT !.last = ret, !.same = 0, !.count = @ + 1]
              ELSE [Top EXCEPT !.same = @ + 1, !.count = @ + 1]
     IN IF f.count >= f.max_n
        THEN Raise("unstable")
        ELSE stack' = Replace([f EXCEPT !.pc = "loop"]) /\ fgerr' = fgerr
  /\ UNCHANGED <<protoVars, lineVars, clock, histVars, setVars>>
  /\ UNCHANGED <<ret, z, zeroed, actVars, feed, retId>>

\* raise e at the innermost frame, nothing else changing
Throw(e) ==
  /\ Raise(e)
  /\ UNCHANGED <<protoVars, lineVars, clock, histVars, setVars>>
  /\ UNCHANGED <<ret, z, zeroed, actVars, feed, retId>>

-----------------------------------------------------------------------------
(* Direction (direction.py) and the force tests of force_gauge.py *)

\* a flip that turns STILL into UP
flipStillMoves(d) == CASE d = "DOWN" -> "UP" [] d = "UP" -> "DOWN" [] d = "STILL" -> "UP"

\* Direction.flip
flip(d) == CASE d = "DOWN" -> "UP" [] d = "UP" -> "DOWN" [] d = "STILL" -> "STILL"

\* Direction.sign
dir_sign(d) == CASE d = "DOWN" -> -1 [] d = "UP" -> 1 [] d = "STILL" -> 0

\* force2dir
force2dir(force) == IF force = 0 THEN "STILL" ELSE IF force < 0 THEN "DOWN" ELSE "UP"

\* inc2dir, for a direction that passes its assertion
inc2dir(inc, direction) == Abs(inc) * dir_sign(direction)

\* sign
sign(v) == IF v = 0 THEN 0 ELSE IF v < 0 THEN -1 ELSE 1

\* 0.001, the width of nonzeroeps, in 1e-5 units
Eps == 100

nonzero == [name |-> "nonzero", cmp |-> "STILL"]
nonzeroeps == [name |-> "nonzeroeps", cmp |-> "STILL"]
samesign_or_zero(cmp) == [name |-> "samesign_or_zero", cmp |-> cmp]

\* test(force) raises TypeError: force is None and the test does arithmetic
TestRaises(test, force) == force = None /\ test.name # "nonzero"

\* test(force), for a force it does not raise on
Test(test, force) ==
  CASE test.name = "nonzero" -> force # Some(0)
    [] test.name = "nonzeroeps" -> Abs(force[1]) > Eps
    [] test.name = "samesign_or_zero" ->
         force[1] = 0 \/ dir_sign(test.cmp) = sign(force[1])

-----------------------------------------------------------------------------
(* The printer, and FDMeter's motion *)

(* Distances are integers in units of 1/160 mm, so 0.1 mm is 16 and can be   *)
(* halved four times.                                                        *)

\* MIN_Z_MOVE = 0.1 mm
MIN_Z_MOVE == 16

\* the constructor's z_fine_inc, 0.1 mm as by default
fine_inc == 16

\* the constructor's z_coarse_inc; the runs take 1/160 mm, which keeps
\* move_to_zero's search distance, ten times as much, below one fine step
coarse_inc == 1

\* 5 mm, the cap of move_to_zero's search distance
MaxSearch == 800

\* 4.9, the force move_z_until aborts above, in 1e-5 units
TooHigh == 490000

\* stable_force's default n_same and max_n
DefaultNSame == 3
DefaultMaxN == 20

\* correction passes of one move_to_zero call
MaxPasses == 2

Min(a, b) == IF a <= b THEN a ELSE b

\* Gcode is a sequence of command lines; the lines the program writes are
\* G0 Z<inc>, M400 (wait for the moves to finish) and M300 (beep)
G0(inc) == <<"G0", inc>>
M400 == <<"M400">>
M300 == <<"M300">>

\* the G0 lines of a gcode, and the distance they move by (the program puts
\* at most one G0 in a gcode)
Moves(gcode) == { i \in 1..Len(gcode) : gcode[i][1] = "G0" }
Dist(gcode) == IF Moves(gcode) = {} THEN 0 ELSE gcode[CHOOSE i \in Moves(gcode) : TRUE][2]

G(gcode, wait) == [fn |-> "G", pc |-> "write", gcode |-> gcode, wait |-> wait]

\* G: self.printer.write(gcode); without wait it returns at once.  The
\* printer owes one 'ok' for every line.
GWrite ==
  /\ In("G", "write")
  /\ sent' = sent + Cardinality(Moves(Top.gcode))
  /\ pos' = pos + Dist(Top.gcode)
  /\ inflight' = inflight + Len(Top.gcode)
  /\ stack' = IF Top.wait THEN At("read") ELSE Tail(stack)
  /\ UNCHANGED <<protoVars, lineVars, clock, histVars, setVars>>
  /\ UNCHANGED <<ret, fgerr, z, zeroed, acks, feed, retId>>

\* G: self.printer.read_until(b'ok\n') finds an answer
GRead ==
  /\ In("G", "read")
  /\ acks > 0
  /\ acks' = acks - 1
  /\ stack' = Tail(stack)
  /\ UNCHANGED <<protoVars, lineVars, clock, histVars, setVars>>
  /\ UNCHANGED <<ret, fgerr, z, zeroed, sent, pos, inflight, feed, retId>>

\* the printer answers the oldest command it has not answered
PrinterOk ==
  /\ inflight > 0
  /\ inflight' = inflight - 1
  /\ acks' = acks + 1
  /\ UNCHANGED <<protoVars, lineVars, clock, histVars, setVars>>
  /\ UNCHANGED <<stack, ret, fgerr, z, zeroed, sent, pos, feed, retId>>

\* move_z(inc, direction, wait=wait, pre=pre), pre being no line or one
move_z_pre(inc, direction, wait, pre) ==
  [fn |-> "move_z", pc |-> "start", inc |-> inc, direction |-> direction,
   wait |-> wait, pre |-> pre]

move_z(inc, direction, wait) == move_z_pre(inc, direction, wait, <<>>)

\* a move_z without the `if inc == 0: return` at its head
MzStartSendsZero ==
  /\ In("move_z", "start")
  /\ IF Top.direction \notin {"UP", "DOWN"} THEN Throw("AssertionError")
     ELSE Step(<<G(Top.pre \o <<G0(inc2dir(Top.inc, Top.direction))>>, Top.wait)>> \o
               Replace([Top EXCEPT !.inc = inc2dir(Top.inc, Top.direction),
                                   !.pc = "sent"]))

\* move_z: nothing to do for inc == 0; inc2dir; the G0 command
MzStart ==
  /\ In("move_z", "start")
  /\ IF Top.inc = 0 THEN Return(None)
     ELSE IF Top.direction \notin {"UP", "DOWN"} THEN Throw("AssertionError")
     ELSE Step(<<G(Top.pre \o <<G0(inc2dir(Top.inc, Top.direction))>>, Top.wait)>> \o
               Replace([Top EXCEPT !.inc = inc2dir(Top.inc, Top.direction),
                                   !.pc = "sent"]))

\* move_z: if wait: self.G('M400')
MzSent ==
  /\ In("move_z", "sent")
  /\ IF Top.wait THEN Step(Call(G(<<M400>>, TRUE), "track")) ELSE Step(At("track"))

\* move_z: if self.zeroed: self.z += inc
MzTrack ==
  /\ In("move_z", "track")
  /\ z' = IF zeroed THEN z + Top.inc ELSE z
  /\ stack' = Tail(stack)
  /\ ret' = None
  /\ UNCHANGED <<protoVars, lineVars, clock, histVars, setVars>>
  /\ UNCHANGED <<fgerr, zeroed, actVars, feed, retId>>

\* max_move is None for inf.  Beside the locals of the function the frame
\* remembers where the actuator stood when force was last assigned (at) and
\* when force was first assigned a nonzero value (first, None before that)
move_z_until(inc, direction, test, max_move) ==
  [fn |-> "move_z_until", pc |-> "start", inc |-> inc, direction |-> direction,
   test |-> test, max_move |-> max_move, dist |-> 0, force |-> None,
   at |-> 0, first |-> None]

\* force = v in frame f
Reads(f, v) ==
  [f EXCEPT !.force = v, !.at = pos,
            !.first = IF @ = None /\ v # None /\ v # Some(0) THEN Some(pos) ELSE @]

\* a move_z_until whose inc2dir asserts nothing
MuStartUnchecked ==
  /\ In("move_z_until", "start")
  /\ Step(<<stable_force(DefaultNSame, DefaultMaxN)>> \o
          Replace([Top EXCEPT !.inc = inc2dir(Top.inc, Top.direction),
                              !.pc = "try"]))

\* move_z_until: dist = 0.0; inc2dir; try: force = self.stable_force()
MuStart ==
  /\ In("move_z_until", "start")
  /\ IF Top.direction \notin {"UP", "DOWN"} THEN Throw("AssertionError")
     ELSE Step(<<stable_force(DefaultNSame, DefaultMaxN)>> \o
               Replace([Top EXCEPT !.inc = inc2dir(Top.inc, Top.direction),
                                   !.pc = "try"]))

\* the try block ended normally
MuTry ==
  /\ In("move_z_until", "try")
  /\ Step(Replace([Reads(Top, ret) EXCEPT !.pc = "loop1"]))

\* except ValueError: force = self.get_force()
MuExcept ==
  /\ In("move_z_until", "except")
  /\ Step(Call(get_force, "got1"))

\* the two while loops of move_z_until: k is 1 for the first, which samples
\* with get_force, and 2 for the second, which samples with stable_force
within(f) == f.max_move = None \/ Abs(f.dist) <= f.max_move[1]

\* moves of one move_z_until call that the runs follow
MaxMoves == 2

Followed(f) == Abs(f.dist) < MaxMoves * Abs(f.inc)

MuLoop(k) ==
  /\ In("move_z_until", IF k = 1 THEN "loop1" ELSE "loop2")
  /\ IF ~within(Top) THEN Step(At(IF k = 1 THEN "check" ELSE "end"))
     ELSE IF TestRaises(Top.test, Top.force) THEN Throw("TypeError")
     ELSE IF Test(Top.test, Top.force) THEN Step(At(IF k = 1 THEN "check" ELSE "end"))
     ELSE IF Abs(Top.force[1]) > TooHigh THEN Throw("toohigh")
     ELSE Followed(Top) /\
          Step(<<move_z(Top.inc, Top.direction, TRUE)>> \o
               Replace([Top EXCEPT !.dist = @ + Top.inc,
                                   !.pc = IF k = 1 THEN "moved1" ELSE "moved2"]))

\* after the move: force = self.get_force(), or self.stable_force()
MuMoved(k) ==
  /\ In("move_z_until", IF k = 1 THEN "moved1" ELSE "moved2")
  /\ IF k = 1 THEN Step(Call(get_force, "got1"))
     ELSE Step(Call(stable_force(DefaultNSame, DefaultMaxN), "got2"))

MuGot(k) ==
  /\ In("move_z_until", IF k = 1 THEN "got1" ELSE "got2")
  /\ Step(Replace([Reads(Top, ret) EXCEPT
                     !.pc = IF k = 1 THEN "loop1" ELSE "loop2"]))

\* the print of test(force) after the first loop, which evaluates the test
\* once more, and the call of `if not test(force := self.stable_force()):`
MuCheck ==
  /\ In("move_z_until", "check")
  /\ IF TestRaises(Top.test, Top.force) THEN Throw("TypeError")
     ELSE Step(Call(stable_force(DefaultNSame, DefaultMaxN), "checked"))

\* a move_z_until that returns after the stable reading whatever the test
\* says of it
MuCheckedNoRetry ==
  /\ In("move_z_until", "checked")
  /\ IF TestRaises(Top.test, ret) THEN Throw("TypeError")
     ELSE Step(Replace([Reads(Top, ret) EXCEPT !.pc = "end"]))

MuChecked ==
  /\ In("move_z_until", "checked")
  /\ IF TestRaises(Top.test, ret) THEN Throw("TypeError")
     ELSE Step(Replace([Reads(Top, ret) EXCEPT
                          !.pc = IF Test(Top.test, ret) THEN "end" ELSE "loop2"]))

\* return dist
MuEnd ==
  /\ In("move_z_until", "end")
  /\ Return(Some(Top.dist))

\* move_to_zero(inc); arg is None for the default
move_to_zero(arg) ==
  [fn |-> "move_to_zero", pc |-> "start", arg |-> arg, inc |-> 0, moved |-> 0,
   direction |-> "STILL", passes |-> 0]

\* moved = 0.0; inc = (inc or self.fine_inc) * 2
MtzStart ==
  /\ In("move_to_zero", "start")
  /\ Step(Replace([Top EXCEPT
            !.inc = 2 * (IF Top.arg = None \/ Top.arg = Some(0)
                         THEN fine_inc ELSE Top.arg[1]),
            !.pc = "loop"]))

\* while (force := self.get_force()) != 0:
MtzLoop ==
  /\ In("move_to_zero", "loop")
  /\ Step(Call(get_force, "got"))

\* a move_to_zero whose loop tests the force after its body, not before
MtzGotTestAfter ==
  /\ In("move_to_zero", "got")
  /\ IF ret = Some(0) /\ Top.passes > 0 THEN Step(At("return"))
     ELSE /\ Top.passes < MaxPasses
          /\ Top.inc % 2 = 0
          /\ Step(Replace([Top EXCEPT !.inc = Min(Top.inc \div 2, MIN_Z_MOVE),
                                      !.passes = @ + 1, !.pc = "dir"]))

\* the loop test, and inc = min(inc / 2, MIN_Z_MOVE)
MtzGot ==
  /\ In("move_to_zero", "got")
  /\ IF ret = Some(0) THEN Step(At("return"))
     ELSE /\ Top.passes < MaxPasses
          /\ Top.inc % 2 = 0
          /\ Step(Replace([Top EXCEPT !.inc = Min(Top.inc \div 2, MIN_Z_MOVE),
                                      !.passes = @ + 1, !.pc = "dir"]))

\* direction = self.force.direction.flip(), read from the channel's _value
MtzDir ==
  /\ In("move_to_zero", "dir")
  /\ IF _value = None THEN Throw("TypeError")
     ELSE Step(Replace([Top EXCEPT !.direction = flip(force2dir(_value[1])),
                                   !.pc = "call"]))

\* the print, which reads self.force.direction once more, and the call of
\* move_z_until
MtzCall ==
  /\ In("move_to_zero", "call")
  /\ IF _value = None THEN Throw("TypeError")
     ELSE Step(Call(move_z_until(Top.inc, Top.direction,
                                 samesign_or_zero(Top.direction),
                                 Some(Min(MaxSearch, Abs(coarse_inc * 10)))),
                    "until"))

\* return moved
MtzReturn ==
  /\ In("move_to_zero", "return")
  /\ Return(Some(Top.moved))

\* moved += the distance move_z_until returned
MtzUntil ==
  /\ In("move_to_zero", "until")
  /\ Step(Replace([Top EXCEPT !.moved = @ + ret[1], !.pc = "loop"]))

\* a caller that waits for the result of one call
caller(callee) == <<callee, [fn |-> "caller", pc |-> "done", args |-> callee]>>

Done == In("caller", "done")

\* the module's own main loop: `if m.new_value: print(m.value)`; the value
\* property clears the flag and the value read is printed, not kept
MainLoop ==
  /\ new_value
  /\ new_value' = FALSE
  /\ UNCHANGED <<buffer, _value, timestamp, ready, lineVars, clock, histVars>>
  /\ UNCHANGED <<fgVars, setVars>>

-----------------------------------------------------------------------------
(* The decoder thread inside the value setter, one statement at a time *)

\* forces the gauge reports, in 1e-5 units: pulling, none, pushing
Forces == {-50000, 0, 50000}

\* samples the decoder publishes in the runs of the channel
MaxPub == 3

\* data_received calls the setter with a decoded force; the check passes and
\* self.timestamp = time() is done
SetterCall(v) ==
  /\ setter = <<>>
  /\ nextId < MaxPub
  /\ ~exceeds(v)
  /\ timestamp' = time
  /\ clock' = time
  /\ setter' = <<"value", v>>
  /\ nextId' = nextId + 1
  /\ UNCHANGED <<buffer, _value, new_value, ready, lineVars, histVars, fgVars, valueId>>

\* self._value = new_value
SetterValueKeepUnread ==
  /\ setter # <<>> /\ setter[1] = "value"
  /\ IF new_value THEN UNCHANGED <<_value, valueId>>
     ELSE _value' = Some(setter[2]) /\ valueId' = nextId
  /\ setter' = <<"flag", setter[2]>>
  /\ UNCHANGED <<buffer, timestamp, new_value, ready, lineVars, clock, histVars, fgVars, nextId>>
SetterValue ==
  /\ setter # <<>> /\ setter[1] = "value"
  /\ _value' = Some(setter[2])
  /\ valueId' = nextId
  /\ setter' = <<"flag", setter[2]>>
  /\ UNCHANGED <<buffer, timestamp, new_value, ready, lineVars, clock, histVars, fgVars, nextId>>

\* self.new_value = True
SetterFlag ==
  /\ setter # <<>> /\ setter[1] = "flag"
  /\ new_value' = TRUE
  /\ setter' = <<>>
  /\ UNCHANGED <<buffer, _value, timestamp, ready, lineVars, clock, histVars, fgVars>>
  /\ UNCHANGED <<valueId, nextId>>

-----------------------------------------------------------------------------
(* Initial conditions *)

ProtoInit ==
  /\ buffer = init_.buffer /\ _value = init_._value /\ timestamp = init_.timestamp
  /\ new_value = init_.new_value /\ ready = init_.ready

\* the decoder when FDMeter.__init__ has waited for self.force.ready: aligned,
\* and (in the runs of the control thread) before its first record
ProtoReady ==
  /\ buffer = <<>> /\ _value = None /\ timestamp = 0 /\ new_value = FALSE
  /\ ready = TRUE

HistInit ==
  /\ cur = <<>> /\ last = <<>> /\ recs = 0 /\ pubs = 0 /\ overloaded = FALSE
  /\ struck = {}
  /\ emitted = 0 /\ conns = 1 /\ changes = 0 /\ slips = 0

SetIdle == setter = <<>> /\ valueId = 0 /\ nextId = 0

FgInit(frames) ==
  /\ stack = frames /\ ret = None /\ fgerr = "none"
  /\ sent = 0 /\ pos = 0 /\ inflight = 0 /\ acks = 0 /\ feed = <<>> /\ retId = 0

\* FDMeter.__init__: z is inf (here: unset) and zeroed is false
Unset == "inf"

-----------------------------------------------------------------------------
(* The decoder on the byte stream, with the module's main loop reading the  *)
(* channel                                                                 *)

InitDec ==
  /\ ProtoInit /\ HistInit /\ SetIdle
  /\ wire \in LineStarts /\ rt = "run" /\ rterr = "none"
  /\ clock = 0
  /\ FgInit(<<>>) /\ z = Unset /\ zeroed = FALSE

NextDec ==
  \/ \E rec \in Records : GaugeSends(rec)
  \/ \E n \in 1..Len(wire) : DataReceived(n)
  \/ \E c \in {"none", "serial", "overload", "parse"} : ConnectionLost(c)
  \/ \E start \in LineStarts : Reconnect(start)
  \/ MainLoop

SpecDec == InitDec /\ [][NextDec]_vars

-----------------------------------------------------------------------------
(* Properties of the decoder *)

\* a step of data_received
DataStep == rt = "run" /\ rt' # "dead" /\ Len(wire') < Len(wire)

\* the history's framing has found the first '-'
Aligned == cur # <<>> \/ last # <<>>

\* the force a record stands for, <<>> when it stands for none
ForceOf(rec) == IF Len(float(rec)) = 1 THEN float(rec) ELSE None

\* C3: when the record a data_received call decodes (the last one it
\* completes) has a magnitude of MAX_FORCE or more, the call fails with the
\* overload error and the stored value, its timestamp and the new-value flag
\* are what they were before the call.
C3_OverloadPublishesNothing ==
  [][ (DataStep /\ recs' > 0 /\ ForceOf(last') # None
         /\ Abs(ForceOf(last')[1]) >= MAX_FORCE)
      => /\ rt' = "raised" /\ rterr' = "overload"
         /\ _value' = _value /\ timestamp' = timestamp /\ new_value' = new_value
    ]_vars

\* an overload has been raised while an earlier sample was still unread
C3_Witness ==
  rt = "raised" /\ rterr = "overload" /\ _value # None /\ new_value

\* C4: once a decoded magnitude has reached MAX_FORCE, and as long as no
\* reconnection has happened, no step publishes: the new-value flag is not
\* set, and value and timestamp change only by being reset.
C4_NoPublishAfterOverload ==
  [][ (overloaded /\ overloaded')
      => /\ new_value' => new_value
         /\ _value' \in {_value, None}
         /\ timestamp' \in {timestamp, 0}
    ]_vars

\* after the overload more bytes are waiting on the line, and nobody reads them
C4_Witness ==
  overloaded /\ rt = "dead" /\ rterr = "overload" /\ emitted > 1

\* C6: within a connection the decoder is ready exactly from the first '-'
\* handed to it on; its buffer then holds the stream from that byte on, less
\* the records consumed; ready falls back to false only when the connection
\* ends; and while ready is false the buffer holds no '-' and nothing has
\* been published.
C6_AlignsOnce ==
  /\ [](rt # "dead" => (ready <=> Aligned))
  /\ [](rt = "run" /\ ready => buffer = cur)
  /\ [](~ready => /\ ~Has(buffer, "-")
                  /\ _value = None /\ ~new_value /\ timestamp = 0)
  /\ [][ready /\ ~ready' => rt' = "dead"]_vars
  /\ [][~ready' => pubs' = 0 \/ rt' = "dead"]_vars

\* bytes were discarded before the '-' that aligned the decoder
C6_Witness ==
  rt = "run" /\ ready /\ conns = 1 /\ emitted = 1 /\ wire = <<>>
     /\ buffer = <<>> /\ _value # None

\* C7 as claimed: every record completed yields one published sample, also
\* when one call completes two records.
C7_EveryRecordPublished ==
  rt = "run" => pubs = recs

\* C7, amended: a data_received call that completes one or more records
\* publishes exactly one sample, the last record completed, with a fresh
\* timestamp and the new-value flag set, and leaves the unfinished record in
\* the buffer; a call that completes none publishes nothing.
C7_LastRecordPublished ==
  /\ [](rt = "run" => pubs = IF recs > 0 THEN 1 ELSE 0)
  /\ [][ (DataStep /\ rt' = "run" /\ recs' > 0)
         => /\ _value' = ForceOf(last') /\ _value' # None
            /\ new_value'
            /\ timestamp' = time /\ clock' = time
            /\ buffer' = cur'
       ]_vars
  /\ [][ (DataStep /\ rt' = "run" /\ recs' = 0)
         => _value' = _value /\ timestamp' = timestamp /\ new_value' = new_value
       ]_vars

\* one call has completed two records and published one sample
C7_Witness ==
  rt = "run" /\ recs = 2 /\ pubs = 1 /\ new_value

\* C8: the step that ends a connection leaves the decoder as constructed,
\* whatever it held; and after a reconnection, as long as the decoder is not
\* ready again, nothing is published and the buffer holds no '-'.
C8_ConnectionLostResets ==
  /\ [][ (rt # "dead" /\ rt' = "dead")
         => /\ buffer' = <<>> /\ ~ready' /\ ~new_value'
            /\ _value' = None /\ timestamp' = 0
       ]_vars
  /\ [](conns > 1 /\ ~ready
          => ~new_value /\ _value = None /\ ~Has(buffer, "-"))

\* after a connection that had published, a reconnected decoder holds bytes
\* and is not aligned yet
C8_Witness ==
  conns = 2 /\ rt = "run" /\ ~ready /\ buffer # <<>> /\ clock > 0

-----------------------------------------------------------------------------
(* The channel: the decoder thread publishing while a control loop reads *)

InitChan ==
  /\ ProtoReady /\ HistInit /\ SetIdle
  /\ wire = <<>> /\ rt = "run" /\ rterr = "none"
  /\ clock = 0
  /\ FgInit(<<control_loop>>) /\ z = Unset /\ zeroed = FALSE

NextChan ==
  \/ \E v \in Forces : SetterCall(v)
  \/ SetterValue
  \/ SetterFlag
  \/ ControlLoop(TRUE)
  \/ GfWait
  \/ GfClear
  \/ GfRead(FALSE)

SpecChan == InitChan /\ [][NextChan]_vars

\* a get_force call has just returned to the control loop
Returned == In("control_loop", "call") /\ Top.n >= 1

\* C1: each get_force call returns a sample published after the one the
\* previous call returned, so no sample is returned twice.
C1_EachCallNewer ==
  (Returned /\ Top.n >= 2) => retId > Top.prev

\* C2: a get_force call returns a sample at least as recent as the last one
\* published before the call was made, so a sample overwritten before the
\* call is never returned; and every statement of the setter can be taken
\* whatever the new-value flag is.
C2_LastWriteWins ==
  /\ Returned => retId >= Top.seen
  /\ Returned => retId <= nextId
  /\ (setter # <<>> /\ setter[1] = "value") => ENABLED SetterValue
  /\ (setter # <<>> /\ setter[1] = "flag") => ENABLED SetterFlag
  /\ (setter = <<>> /\ nextId < MaxPub) => \A v \in Forces : ENABLED SetterCall(v)

\* two samples were published before the call, which returned the second
C2_Witness ==
  Returned /\ Top.n = 1 /\ Top.seen = 2 /\ retId = 2 /\ nextId = 2

-----------------------------------------------------------------------------
(* stable_force on every sample feed *)

\* largest n_same and max_n tried; n_same is 2 or more and max_n leaves room
\* for a run, as with the defaults 3 and 20
MaxNSame == 3
MaxN == 5

\* two forces give every pattern of equal and unequal neighbours
FeedForces == {0, 50000}

InitStable ==
  /\ ProtoReady /\ HistInit /\ SetIdle
  /\ wire = <<>> /\ rt = "run" /\ rterr = "none"
  /\ clock = 0
  /\ \E n \in 2..MaxNSame, m \in 3..MaxN :
        m > n /\ FgInit(caller(stable_force(n, m)))
  /\ z = Unset /\ zeroed = FALSE

NextStable ==
  \/ \E v \in FeedForces : Decoded(v)
  \/ SfStart
  \/ SfFirst
  \/ SfLoop
  \/ SfCmp
  \/ GfWait
  \/ GfClear
  \/ GfRead(TRUE)

SpecStable == InitStable /\ [][NextStable]_vars

\* the n samples of s ending at the i-th are equal
RunAt(s, i, n) == i >= n /\ \A j \in (i - n + 1)..i : s[j] = s[i]

\* where the first run of n equal samples ends within the first max samples
\* of s, 0 if there is none
FirstRun(s, n, max) ==
  LET I == { i \in 1..Len(s) : i <= max /\ RunAt(s, i, n) }
  IN IF I = {} THEN 0 ELSE CHOOSE i \in I : \A j \in I : i <= j

\* the call has ended, by returning or by raising
StableEnded == stack # <<>> /\ stack[Len(stack)].fn = "caller"
                 /\ (Done \/ fgerr # "none")

\* C9: when stable_force(n_same, max_n) ends, it has returned V if V was
\* seen n_same times in a row within the first max_n samples, and has raised
\* the unstable-reading error otherwise.
C9_StableIffRun ==
  StableEnded =>
    LET a == stack[Len(stack)].args
        i == FirstRun(feed, a.n_same, a.max_n)
    IN IF i > 0 THEN fgerr = "none" /\ ret = feed[i]
       ELSE fgerr = "unstable"

-----------------------------------------------------------------------------
(* move_to_zero, with the decoder publishing and possibly overloading *)

\* what the decoder can decode while the control thread moves: a push down,
\* no force, and a force of MAX_FORCE
MotionForces == {-50000, 0, MAX_FORCE}

InitZero ==
  /\ ProtoReady /\ HistInit /\ SetIdle
  /\ wire = <<>> /\ rt = "run" /\ rterr = "none"
  /\ clock = 0
  /\ FgInit(caller(move_to_zero(None)))
  /\ zeroed \in BOOLEAN
  /\ z = IF zeroed THEN 0 ELSE Unset

NextZero ==
  \/ \E v \in MotionForces : Decoded(v)
  \/ \E c \in {"overload"} : ConnectionLost(c)
  \/ PrinterOk
  \/ GfWait \/ GfClear \/ GfRead(FALSE)
  \/ SfStart \/ SfFirst \/ SfLoop \/ SfCmp
  \/ GWrite \/ GRead
  \/ MzStart \/ MzSent \/ MzTrack
  \/ MuStart \/ MuTry \/ MuExcept
  \/ \E k \in {1, 2} : MuLoop(k)
  \/ \E k \in {1, 2} : MuMoved(k)
  \/ \E k \in {1, 2} : MuGot(k)
  \/ MuCheck \/ MuChecked \/ MuEnd
  \/ MtzStart \/ MtzLoop \/ MtzGot \/ MtzDir \/ MtzCall \/ MtzUntil \/ MtzReturn

SpecZero == InitZero /\ [][NextZero]_vars

\* the frame of the move_to_zero call, which is right above the caller's
Mtz == stack[Len(stack) - 1]

\* move_to_zero is running and has not started a correction pass
BeforeFirstPass == Len(stack) >= 2 /\ Mtz.fn = "move_to_zero" /\ Mtz.passes = 0

\* z as InitZero leaves it
InitialZ == IF zeroed THEN 0 ELSE Unset

\* C10: when the first force sample move_to_zero reads is exactly 0, it sends
\* no motion command to the actuator, leaves z and zeroed unchanged, and
\* returns a moved distance of 0: until a first correction pass starts no G0
\* is sent and z and zeroed stay as they were, a first sample of 0 takes the
\* call to its return statement, and the return statement reached without a
\* pass returns 0 to the caller
C10_ZeroIsFixedPoint ==
  /\ [](BeforeFirstPass => sent = 0 /\ inflight = 0 /\ z = InitialZ)
  /\ [][BeforeFirstPass => sent' = sent /\ z' = z /\ zeroed' = zeroed]_vars
  /\ [][(In("move_to_zero", "got") /\ Top.passes = 0 /\ ret = Some(0)
         /\ stack' # stack)
        => stack'[1].fn = "move_to_zero" /\ stack'[1].pc = "return"
           /\ stack'[1].passes = 0]_vars
  /\ [][(In("move_to_zero", "return") /\ Top.passes = 0 /\ stack' # stack)
        => Done' /\ ret' = Some(0)]_vars

\* move_to_zero has read 0 as its first sample and is about to return
C10_Witness ==
  /\ In("move_to_zero", "return") /\ Top.passes = 0
  /\ ret = Some(0) /\ sent = 0

\* the control thread waits in get_force for a sample of a reader thread that
\* has ended
Hung == In("get_force", "wait") /\ ~new_value /\ rt = "dead"

\* C5: a reading at the overload threshold during move_z_until aborts the
\* foreground operation: after the overload no further motion command is
\* sent, and the operation does not wait forever for a next sample
C5_OverloadAborts ==
  /\ [][overloaded /\ "move_z_until" \in struck => sent' = sent]_vars
  /\ [](overloaded /\ "move_z_until" \in struck => ~Hung)

-----------------------------------------------------------------------------
(* move_z: two calls one after the other, blocking or not *)

\* a caller that makes the calls one after the other
script(calls) == calls \o <<[fn |-> "caller", pc |-> "done", args |-> calls]>>

\* the distances asked for: none, one fine step, and a negative one
MoveIncs == {0, 16, -8}

MoveCalls ==
  { move_z(inc, d, w) : inc \in MoveIncs, d \in {"UP", "DOWN"}, w \in BOOLEAN }

InitMove ==
  /\ ProtoReady /\ HistInit /\ SetIdle
  /\ wire = <<>> /\ rt = "run" /\ rterr = "none"
  /\ clock = 0
  /\ \E a \in MoveCalls, b \in MoveCalls : FgInit(script(<<a, b>>))
  /\ zeroed \in BOOLEAN
  /\ z = IF zeroed THEN 0 ELSE Unset

NextMove ==
  \/ MzStart \/ MzSent \/ MzTrack
  \/ GWrite \/ GRead
  \/ PrinterOk

SpecMove == InitMove /\ [][NextMove]_vars

\* the calls of the script, and how many of them have returned
Script == stack[Len(stack)].args
Returns == Len(Script) - Cardinality({ i \in 1..Len(stack) : stack[i].fn = "move_z" })

\* the control thread is between two calls of the script, or after the last
Between == Done \/ In("move_z", "start")

\* what the first n calls of the script ask for: the signed distances, and
\* how many of them are not 0
RECURSIVE Asked(_, _)
Asked(calls, n) ==
  IF n = 0 THEN [dist |-> 0, moves |-> 0]
  ELSE LET c == calls[n]
           a == Asked(calls, n - 1)
       IN IF c.inc = 0 THEN a
          ELSE [dist |-> a.dist + Abs(c.inc) * dir_sign(c.direction),
                moves |-> a.moves + 1]

\* C18: move_z with distance 0 sends nothing to the actuator and changes no
\* state; with another distance it issues exactly one relative motion command
\* (G0) of the signed distance and adds the signed distance to z if and only
\* if zeroed is true; while zeroed is false z stays at its unset value.
C18_MoveFrame ==
  /\ [](Between =>
          LET a == Asked(Script, Returns)
          IN /\ sent = a.moves /\ pos = a.dist
             /\ z = IF zeroed THEN a.dist ELSE Unset)
  /\ [][(In("move_z", "start") /\ Top.inc = 0 /\ stack' # stack)
        => /\ stack' = Tail(stack)
           /\ UNCHANGED <<z, zeroed, actVars, protoVars>>]_vars
  /\ [][zeroed' = zeroed]_vars
  /\ [](~zeroed => z = Unset)

\* two moves have returned, the first of distance 0 and the second not
C18_Witness ==
  /\ Done /\ Script[1].inc = 0 /\ Script[2].inc # 0
  /\ sent = 1 /\ pos # 0

\* C19: when G reads an 'ok' for move_z(wait=True), the 'ok' is the answer to
\* the line just written: the printer has answered every line written, and
\* no other answer is waiting to be read.  (The printer answers in the order
\* of the lines and G reads in the order of the answers, so the answer read
\* is the one to the last line exactly when it is the only one waiting and
\* no line is unanswered.)
C19_AckIsOwn ==
  [][(In("G", "read") /\ stack' # stack) => acks = 1 /\ inflight = 0]_vars

\* C20: once zeroed, z changes only when every line written to the printer
\* has been answered and the answer read, so that a move commanded with
\* wait=False does not change z.
C20_TrackedWhenConfirmed ==
  [][(zeroed /\ z' # z) => inflight = 0 /\ acks = 0]_vars

-----------------------------------------------------------------------------
(* One call of move_z_until, or of move_z, in any direction *)

\* what the decoder decodes in these runs: a push down and no force
UntilForces == {-50000, 0}

\* the max_move of the calls with one: 0.125 mm, passed by the second step
UntilMax == 20

UntilCalls ==
  { move_z_until(fine_inc, d, t, mm) :
      d \in {"DOWN", "STILL"},
      t \in {nonzeroeps, samesign_or_zero("UP")},
      mm \in {None, Some(UntilMax)} }
  \cup { move_z(inc, "STILL", w) : inc \in {0, fine_inc}, w \in BOOLEAN }

InitUntil ==
  /\ ProtoReady /\ HistInit /\ SetIdle
  /\ wire = <<>> /\ rt = "run" /\ rterr = "none"
  /\ clock = 0
  /\ \E c \in UntilCalls : FgInit(caller(c))
  /\ zeroed \in BOOLEAN
  /\ z = IF zeroed THEN 0 ELSE Unset

NextUntil ==
  \/ \E v \in UntilForces : Decoded(v)
  \/ PrinterOk
  \/ GfWait \/ GfClear \/ GfRead(FALSE)
  \/ SfStart \/ SfFirst \/ SfLoop \/ SfCmp
  \/ GWrite \/ GRead
  \/ MzStart \/ MzSent \/ MzTrack
  \/ MuStart \/ MuTry \/ MuExcept
  \/ \E k \in {1, 2} : MuLoop(k)
  \/ \E k \in {1, 2} : MuMoved(k)
  \/ \E k \in {1, 2} : MuGot(k)
  \/ MuCheck \/ MuChecked \/ MuEnd

SpecUntil == InitUntil /\ [][NextUntil]_vars

\* the call the caller makes
TheCall == stack[Len(stack)].args

StillCall ==
  /\ TheCall.direction = "STILL"
  /\ TheCall.fn = "move_z" => TheCall.inc # 0

\* C17: move_z_until with direction STILL, and move_z with a distance other
\* than 0 and direction STILL, fail at their first statement with the error
\* of inc2dir's assertion: nothing is written to the printer, z does not
\* change, and the call does not return.
C17_StillRejected ==
  /\ [](StillCall => /\ sent = 0 /\ pos = 0 /\ inflight = 0 /\ acks = 0
                     /\ z = InitialZ
                     /\ ~Done
                     /\ fgerr \in {"none", "AssertionError"}
                     /\ Len(stack) = 2 /\ Top.pc = "start")
  /\ [][StillCall /\ stack' # stack => FALSE]_vars
  /\ [](StillCall => ENABLED (MuStart \/ MzStart) \/ fgerr = "AssertionError")

\* move_z_until(0.1, STILL, ...) has raised
C17_Witness ==
  /\ StillCall /\ TheCall.fn = "move_z_until"
  /\ fgerr = "AssertionError" /\ sent = 0

-----------------------------------------------------------------------------
(* zero_z_axis *)

\* zero_z_axis(direction, backoff)
zero_z_axis(direction, backoff) ==
  [fn |-> "zero_z_axis", pc |-> "start", direction |-> direction,
   backoff |-> backoff, rel_z |-> 0]

\* Python's truth of an optional number: None and 0 are false
Truthy(v) == v # None /\ v # Some(0)

\* rel_z = 0.0; self.move_to_zero()
ZzStart ==
  /\ In("zero_z_axis", "start")
  /\ Step(Call(move_to_zero(None), "nulled"))

\* if force := self.get_force():
ZzNulled ==
  /\ In("zero_z_axis", "nulled")
  /\ Step(Call(get_force, "force1"))

\* if force := self.stable_force():
ZzForce1 ==
  /\ In("zero_z_axis", "force1")
  /\ IF Truthy(ret) THEN Step(Call(stable_force(DefaultNSame, DefaultMaxN), "force2"))
     ELSE Step(At("coarse"))

\* raise ValueError("Uh-oh, force of ... still nonzero")
ZzForce2 ==
  /\ In("zero_z_axis", "force2")
  /\ IF Truthy(ret) THEN Throw("stillnonzero") ELSE Step(At("coarse"))

\* the coarse approach: self.move_z_until(inc=self.coarse_inc,
\* direction=direction, test=nonzeroeps), max_move being inf by default
ZzCoarse ==
  /\ In("zero_z_axis", "coarse")
  /\ Step(Call(move_z_until(coarse_inc, Top.direction, nonzeroeps, None), "approached"))

\* a zero_z_axis that takes the place of the coarse contact for the zero
ZzApproachedIsZero ==
  /\ In("zero_z_axis", "approached")
  /\ stack' = Call(get_force, "stopped1")
  /\ z' = 0 /\ zeroed' = TRUE
  /\ UNCHANGED <<protoVars, lineVars, clock, histVars, setVars>>
  /\ UNCHANGED <<ret, fgerr, actVars, feed, retId>>

\* rel_z += the distance returned; if self.get_force() == 0 ...
ZzApproached ==
  /\ In("zero_z_axis", "approached")
  /\ Step(<<get_force>> \o
          Replace([Top EXCEPT !.rel_z = @ + ret[1], !.pc = "stopped1"]))

\* ... and self.stable_force() == 0:
ZzStopped1 ==
  /\ In("zero_z_axis", "stopped1")
  /\ IF ret = Some(0) THEN Step(Call(stable_force(DefaultNSame, DefaultMaxN), "stopped2"))
     ELSE Step(At("backoff"))

\* raise ValueError("Stopped zeroing but force is 0")
ZzStopped2 ==
  /\ In("zero_z_axis", "stopped2")
  /\ IF ret = Some(0) THEN Throw("stoppedzero") ELSE Step(At("backoff"))

\* the print of the coarse backoff, which reads self.get_force()
ZzBackoff ==
  /\ In("zero_z_axis", "backoff")
  /\ Step(Call(get_force, "backoff2"))

\* the coarse backoff: self.move_to_zero(inc=self.coarse_inc)
ZzBackoff2 ==
  /\ In("zero_z_axis", "backoff2")
  /\ Step(Call(move_to_zero(Some(coarse_inc)), "fine"))

\* the print of the fine approach, which reads self.get_force()
ZzFine ==
  /\ In("zero_z_axis", "fine")
  /\ Step(Call(get_force, "fine2"))

\* the fine approach: self.move_z_until(inc=self.fine_inc,
\* direction=direction, test=nonzeroeps)
ZzFine2 ==
  /\ In("zero_z_axis", "fine2")
  /\ Step(Call(move_z_until(fine_inc, Top.direction, nonzeroeps, None), "set"))

\* self.z = 0; self.zeroed = True
ZzSet ==
  /\ In("zero_z_axis", "set")
  /\ z' = 0 /\ zeroed' = TRUE
  /\ stack' = At("after")
  /\ UNCHANGED <<protoVars, lineVars, clock, histVars, setVars>>
  /\ UNCHANGED <<ret, fgerr, actVars, feed, retId>>

\* if backoff: the print of the fine backoff, which reads self.get_force()
ZzAfter ==
  /\ In("zero_z_axis", "after")
  /\ IF Top.backoff THEN Step(Call(get_force, "fineback")) ELSE Step(At("report"))

\* the fine backoff: self.move_to_zero(inc=self.fine_inc)
ZzFineback ==
  /\ In("zero_z_axis", "fineback")
  /\ Step(Call(move_to_zero(Some(fine_inc)), "report"))

\* the last print, which reads self.get_force()
ZzReport ==
  /\ In("zero_z_axis", "report")
  /\ Step(Call(get_force, "end"))

ZzEnd ==
  /\ In("zero_z_axis", "end")
  /\ Return(None)

\* what the gauge reports while the axis is zeroed downwards: a push, or
\* nothing
ZeroingForces == {-50000, 0}

InitZeroing ==
  /\ ProtoReady /\ HistInit /\ SetIdle
  /\ wire = <<>> /\ rt = "run" /\ rterr = "none"
  /\ clock = 0
  /\ \E b \in BOOLEAN : FgInit(caller(zero_z_axis("DOWN", b)))
  /\ zeroed = FALSE /\ z = Unset

\* stable_force does not run out of its 20 readings while the force changes
\* MaxChanges times at most, so the except branch of move_z_until is not taken
NextZeroing ==
  \/ \E v \in ZeroingForces : DecodedFew(v, MaxChanges)
  \/ PrinterOk
  \/ GfWait \/ GfClear \/ GfRead(FALSE)
  \/ SfStart \/ SfFirst \/ SfLoop \/ SfCmp
  \/ GWrite \/ GRead
  \/ MzStart \/ MzSent \/ MzTrack
  \/ MuStart \/ MuTry
  \/ \E k \in {1, 2} : MuLoop(k)
  \/ \E k \in {1, 2} : MuMoved(k)
  \/ \E k \in {1, 2} : MuGot(k)
  \/ MuCheck \/ MuChecked \/ MuEnd
  \/ MtzStart \/ MtzLoop \/ MtzGot \/ MtzDir \/ MtzCall \/ MtzUntil \/ MtzReturn
  \/ ZzStart \/ ZzNulled \/ ZzForce1 \/ ZzForce2
  \/ ZzCoarse \/ ZzApproached \/ ZzStopped1 \/ ZzStopped2
  \/ ZzBackoff \/ ZzBackoff2 \/ ZzFine \/ ZzFine2
  \/ ZzSet \/ ZzAfter \/ ZzFineback \/ ZzReport \/ ZzEnd

SpecZeroing == InitZeroing /\ [][NextZeroing]_vars

\* the frame of zero_z_axis, right above the caller's, and the frame of the
\* call it is waiting for
Zz == stack[Len(stack) - 1]
Sub == stack[Len(stack) - 2]

\* the phases of zero_z_axis by the position of its frame: 1 force nulling,
\* 2 coarse approach, 3 coarse backoff, 4 fine approach, 5 what follows the
\* setting of z (the fine backoff, if any), 6 returned
ZPhase ==
  IF Len(stack) < 2 THEN 6
  ELSE CASE Zz.pc \in {"start", "nulled", "force1", "force2", "coarse"} -> 1
         [] Zz.pc \in {"approached", "stopped1", "stopped2", "backoff", "backoff2"} -> 2
         [] Zz.pc \in {"fine", "fine2"} -> 3
         [] Zz.pc = "set" -> 4
         [] Zz.pc \in {"after", "fineback", "report", "end"} -> 5

\* the call zero_z_axis is waiting for belongs to its phase
SubOfPhase ==
  /\ Len(stack) >= 3
  /\ CASE ZPhase \in {1, 3} -> Sub.fn = "move_to_zero"
       [] ZPhase = 2 -> /\ Sub.fn = "move_z_until" /\ Sub.test = nonzeroeps
                        /\ Sub.inc = inc2dir(coarse_inc, Zz.direction)
       [] ZPhase = 4 -> /\ Sub.fn = "move_z_until" /\ Sub.test = nonzeroeps
                        /\ Sub.inc = inc2dir(fine_inc, Zz.direction)
       [] ZPhase = 5 -> Sub.fn = "move_to_zero" /\ Zz.backoff /\ Zz.pc = "report"
       [] OTHER -> FALSE

\* the fine approach is at its return statement
FineEnd == In("move_z_until", "end") /\ Len(stack) = 3 /\ Zz.pc = "set"

C12_CoarseApproachGivesUp ==
  ~( /\ In("move_z_until", "loop1") /\ Len(stack) = 3 /\ Zz.pc = "approached"
     /\ Abs(Top.dist) >= MaxMoves * Abs(Top.inc)
     /\ Top.first = None /\ Top.force = Some(0)
     /\ within(Top) /\ ~Test(Top.test, Top.force) )

-----------------------------------------------------------------------------
(* careful_move_test *)

\* samedir(direction, force) and oppdir_or_zero(direction, force)
samedir(direction, force) == dir_sign(flip(direction)) + sign(force) = 0
oppdir_or_zero(direction, force) == force = 0 \/ dir_sign(direction) + sign(force) = 0

\* a TestResult, less its timestamp and the fields that are the same in
\* every result of a test (test_type, direction, testno)
TestResult(displacement, zz, force) ==
  [displacement |-> displacement, z |-> zz, force |-> force]

RECURSIVE Sum(_)
Sum(vals) == IF vals = <<>> THEN 0 ELSE vals[1][1] + Sum(Tail(vals))

\* avg_force(n)
avg_force(n) == [fn |-> "avg_force", pc |-> "loop", n |-> n, vals |-> <<>>]

\* vals = [self.get_force() for _ in range(n)]; return sum(vals) / len(vals)
AvgLoop ==
  /\ In("avg_force", "loop")
  /\ IF Len(Top.vals) < Top.n THEN Step(Call(get_force, "got"))
     ELSE IF \E i \in 1..Len(Top.vals) : Top.vals[i] = None THEN Throw("TypeError")
     ELSE Return(Some(Sum(Top.vals) \div Len(Top.vals)))

AvgGot ==
  /\ In("avg_force", "got")
  /\ Step(Replace([Top EXCEPT !.vals = Append(@, ret), !.pc = "loop"]))

\* careful_move_test(z_inc, direction, n_samples, return_to_zero, stop_after,
\* min_displacement); f is None before the first assignment
careful_move_test(z_inc, direction, n_samples, return_to_zero, stop_after, min_displacement) ==
  [fn |-> "careful_move_test", pc |-> "start", z_inc |-> z_inc,
   direction |-> direction, n_samples |-> n_samples,
   return_to_zero |-> return_to_zero, stop_after |-> stop_after,
   min_displacement |-> min_displacement,
   f |-> None, displacement |-> 0, data |-> <<>>]

\* the check of min_displacement against stop_after, and
\* `if (f := self.get_force()) != 0:`
CmtStart ==
  /\ In("careful_move_test", "start")
  /\ IF Abs(Top.min_displacement) > Abs(Top.stop_after) THEN Throw("ValueError")
     ELSE Step(Call(get_force, "first"))

\* self.move_to_zero() when the force read is not 0
CmtFirst ==
  /\ In("careful_move_test", "first")
  /\ IF ret # Some(0)
     THEN Step(<<move_to_zero(None)>> \o Replace([Top EXCEPT !.f = ret, !.pc = "pre"]))
     ELSE Step(Replace([Top EXCEPT !.f = ret, !.pc = "pre"]))

\* z_inc = inc2dir(z_inc, direction); displacement = 0; data = []; the
\* pre-move self.move_z_until(inc=self.fine_inc, direction=direction,
\* test=nonzero)
CmtPre ==
  /\ In("careful_move_test", "pre")
  /\ IF Top.direction \notin {"UP", "DOWN"} THEN Throw("AssertionError")
     ELSE Step(<<move_z_until(fine_inc, Top.direction, nonzero, None)>> \o
               Replace([Top EXCEPT !.z_inc = inc2dir(Top.z_inc, Top.direction),
                                   !.displacement = 0, !.data = <<>>,
                                   !.pc = "premoved"]))

\* the print of the start of the test, which reads self.get_force()
CmtPremoved ==
  /\ In("careful_move_test", "premoved")
  /\ Step(Call(get_force, "loop1"))

\* move_one(z_inc, direction), the closure of careful_move_test; disp and zz
\* are displacement and self.z as read for the TestResult, before the force
\* is sampled
move_one(z_inc, direction, n, disp, zz) ==
  [fn |-> "move_one", pc |-> "start", z_inc |-> z_inc, direction |-> direction,
   n |-> n, disp |-> disp, zz |-> zz, f |-> None]

\* the call move_one(z_inc, direction) of careful_move_test
MoveOne(f) == move_one(f.z_inc, f.direction, f.n_samples, f.displacement, z)

\* a careful_move_test whose first loop ends on a force of zero
CmtLoop1StopsOnZero ==
  /\ In("careful_move_test", "loop1")
  /\ IF Abs(Top.displacement) < Abs(Top.min_displacement) /\ Top.f # Some(0)
     THEN Step(Call(MoveOne(Top), "stepped1"))
     ELSE Step(At("loop2"))

\* while abs(displacement) < abs(min_displacement): f = move_one(...)
CmtLoop1 ==
  /\ In("careful_move_test", "loop1")
  /\ IF Abs(Top.displacement) < Abs(Top.min_displacement)
     THEN Step(Call(MoveOne(Top), "stepped1"))
     ELSE Step(At("loop2"))

\* a careful_move_test whose second loop goes on whatever the force is
CmtLoop2AnyForce ==
  /\ In("careful_move_test", "loop2")
  /\ IF Abs(Top.displacement) < Top.stop_after
     THEN Step(Call(MoveOne(Top), "stepped2"))
     ELSE Step(At("finish"))

\* while (f != 0 or samedir(direction, f)) and abs(displacement) < stop_after:
\*   f = move_one(...)
CmtLoop2 ==
  /\ In("careful_move_test", "loop2")
  /\ IF (Top.f # Some(0) \/ samedir(Top.direction, Top.f[1]))
        /\ Abs(Top.displacement) < Top.stop_after
     THEN Step(Call(MoveOne(Top), "stepped2"))
     ELSE Step(At("finish"))

\* f = the value move_one returned
CmtStepped(k) ==
  /\ In("careful_move_test", IF k = 1 THEN "stepped1" ELSE "stepped2")
  /\ Step(Replace([Top EXCEPT !.f = ret, !.pc = IF k = 1 THEN "loop1" ELSE "loop2"]))

\* move_one: force=(f := self.avg_force(n=n_samples))
MoStart ==
  /\ In("move_one", "start")
  /\ Step(Call(avg_force(Top.n), "sampled"))

\* move_one: data.append(TestResult(...)); self.move_z(z_inc, direction)
MoSampled ==
  /\ In("move_one", "sampled")
  /\ Step(<<move_z(Top.z_inc, Top.direction, TRUE),
            [Top EXCEPT !.f = ret, !.pc = "moved"],
            [stack[2] EXCEPT !.data = Append(@, TestResult(Top.disp, Top.zz, ret))]>>
          \o SubSeq(stack, 3, Len(stack)))

\* move_one: displacement += z_inc; return f
MoMoved ==
  /\ In("move_one", "moved")
  /\ stack' = <<[stack[2] EXCEPT !.displacement = @ + Top.z_inc]>>
               \o SubSeq(stack, 3, Len(stack))
  /\ ret' = Top.f
  /\ UNCHANGED <<protoVars, lineVars, clock, histVars, setVars>>
  /\ UNCHANGED <<fgerr, z, zeroed, actVars, feed, retId>>

\* if f != 0: self.move_to_zero()
CmtFinish ==
  /\ In("careful_move_test", "finish")
  /\ IF Top.f # Some(0) THEN Step(Call(move_to_zero(None), "report"))
     ELSE Step(At("report"))

\* the print of oppdir_or_zero(direction, f), and
\* if return_to_zero: self.move_z(displacement, direction.flip())
CmtReport ==
  /\ In("careful_move_test", "report")
  /\ IF Top.f = None THEN Throw("TypeError")
     ELSE IF Top.return_to_zero
     THEN Step(Call(move_z(Top.displacement, flip(Top.direction), TRUE), "end"))
     ELSE Step(At("end"))

\* return data
CmtEnd ==
  /\ In("careful_move_test", "end")
  /\ Return(Some(Top.data))

\* the forces of a careful test: a push, nothing, a pull
CarefulForces == {-50000, 0, 50000}

\* min_displacement and stop_after of the tests that are run, two fine steps
CarefulMin == 32
CarefulStop == 32

\* changes of the reported force that the runs of careful_move_test follow
CarefulChanges == 2

CarefulCalls ==
  { careful_move_test(16, "DOWN", n, r, CarefulStop, m) :
      n \in {1, 2}, r \in {TRUE}, m \in {0, -CarefulMin} }

InitCareful ==
  /\ ProtoReady /\ HistInit /\ SetIdle
  /\ wire = <<>> /\ rt = "run" /\ rterr = "none"
  /\ clock = 0
  /\ \E c \in CarefulCalls : FgInit(caller(c))
  /\ zeroed \in BOOLEAN
  /\ z = IF zeroed THEN 0 ELSE Unset

NextCareful ==
  \/ \E v \in CarefulForces : DecodedFew(v, CarefulChanges)
  \/ PrinterOk
  \/ GfWait \/ GfClear \/ GfRead(FALSE)
  \/ SfStart \/ SfFirst \/ SfLoop \/ SfCmp
  \/ GWrite \/ GRead
  \/ MzStart \/ MzSent \/ MzTrack
  \/ MuStart \/ MuTry
  \/ \E k \in {1, 2} : MuLoop(k)
  \/ \E k \in {1, 2} : MuMoved(k)
  \/ \E k \in {1, 2} : MuGot(k)
  \/ MuCheck \/ MuChecked \/ MuEnd
  \/ MtzStart \/ MtzLoop \/ MtzGot \/ MtzDir \/ MtzCall \/ MtzUntil \/ MtzReturn
  \/ AvgLoop \/ AvgGot
  \/ CmtStart \/ CmtFirst \/ CmtPre \/ CmtPremoved
  \/ CmtLoop1 \/ CmtLoop2
  \/ \E k \in {1, 2} : CmtStepped(k)
  \/ MoStart \/ MoSampled \/ MoMoved
  \/ CmtFinish \/ CmtReport \/ CmtEnd

SpecCareful == InitCareful /\ [][NextCareful]_vars

\* the frame of careful_move_test, right above the caller's
Cmt == stack[Len(stack) - 1]

CmtRuns == Len(stack) >= 2 /\ Cmt.fn = "careful_move_test"

\* the results recorded so far
CmtData == IF CmtRuns THEN Cmt.data ELSE <<>>

\* the signed step of the call
SignedStep == inc2dir(TheCall.z_inc, TheCall.direction)

\* the k-th of the results has displacement (k - 1) * s
Spaced(data, s) == \A k \in 1..Len(data) : data[k].displacement = (k - 1) * s

\* C13: in careful_move_test with signed step s the k-th TestResult recorded,
\* counting from 0, has displacement k * s, in the list being built and in
\* the list returned, and the displacement at the head of either loop is s
\* times the number of results; and stepping never stops while the
\* displacement is below min_displacement in magnitude, whatever the forces:
\* the first loop then calls move_one, and the code after the first loop is
\* reached only with the minimum covered
C13_EvenStepsPastMinimum ==
  /\ [](Spaced(CmtData, SignedStep))
  /\ [](Done /\ fgerr = "none" => Spaced(ret[1], SignedStep))
  /\ [](In("careful_move_test", "loop1") \/ In("careful_move_test", "loop2")
        => Top.displacement = Len(Top.data) * SignedStep)
  /\ [][(In("careful_move_test", "loop1") /\ stack' # stack
         /\ Abs(Top.displacement) < Abs(Top.min_displacement))
        => stack'[1].fn = "move_one" /\ stack'[1].disp = Top.displacement]_vars
  /\ [](CmtRuns /\ Cmt.pc \in {"loop2", "stepped2", "finish", "report", "end"}
        => Abs(Cmt.displacement) >= Abs(Cmt.min_displacement))

\* the first loop has stepped twice, the first time after a sample that was
\* zero or against the direction of the test
C13_Witness ==
  /\ In("careful_move_test", "loop2") /\ Top.min_displacement # 0
  /\ Len(Top.data) = 2 /\ Top.data[2].displacement = SignedStep
  /\ oppdir_or_zero(Top.direction, Top.data[1].force[1])

\* C14: once the minimum displacement is covered careful_move_test stops
\* stepping at the first recorded sample whose force is zero or whose sign
\* opposes the direction of the test: no TestResult is recorded after a
\* result that was recorded at or beyond the minimum displacement with such
\* a force
C14_StopsOnZeroOrOpposite ==
  [][ (Len(CmtData') > Len(CmtData) /\ Len(CmtData) > 0)
      => LET prev == CmtData[Len(CmtData)]
         IN ~ ( /\ Abs(prev.displacement) >= Abs(Cmt.min_displacement)
                /\ oppdir_or_zero(Cmt.direction, prev.force[1]) ) ]_vars

-----------------------------------------------------------------------------
(* smooth_move_test *)

\* get_tsforce; t is the timestamp it has read
get_tsforce == [fn |-> "get_tsforce", pc |-> "wait", t |-> 0]

\* get_tsforce: `while not self.force.new_value: pass` leaves the loop
GtWait ==
  /\ In("get_tsforce", "wait")
  /\ new_value
  /\ Step(At("stamp"))

\* return self.force.timestamp, self.force.value: the timestamp is read
\* first
GtStamp ==
  /\ In("get_tsforce", "stamp")
  /\ Step(Replace([Top EXCEPT !.t = timestamp, !.pc = "clear"]))

\* the value property, first statement: self.new_value = False
GtClear ==
  /\ In("get_tsforce", "clear")
  /\ new_value' = FALSE
  /\ stack' = At("read")
  /\ UNCHANGED <<buffer, _value, timestamp, ready, lineVars, clock, histVars, setVars>>
  /\ UNCHANGED <<ret, fgerr, z, zeroed, actVars, feed, retId>>

\* the value property, second statement: return self._value; the pair is
\* returned
GtRead ==
  /\ In("get_tsforce", "read")
  /\ ret' = <<Top.t, _value>>
  /\ retId' = valueId
  /\ feed' = Append(feed, _value)
  /\ stack' = Tail(stack)
  /\ UNCHANGED <<protoVars, lineVars, clock, histVars, setVars>>
  /\ UNCHANGED <<fgerr, z, zeroed, actVars>>

\* smooth_move_test(target_displacement, direction, return_to_zero, zero_z)
smooth_move_test(target_displacement, direction, return_to_zero, zero_z) ==
  [fn |-> "smooth_move_test", pc |-> "start",
   target_displacement |-> target_displacement, direction |-> direction,
   return_to_zero |-> return_to_zero, zero_z |-> zero_z, data |-> <<>>]

\* if zero_z: self.zero_z_axis(direction=direction, backoff=False)
SmtStart ==
  /\ In("smooth_move_test", "start")
  /\ IF Top.zero_z THEN Step(Call(zero_z_axis(Top.direction, FALSE), "zeroed"))
     ELSE Step(At("zeroed"))

\* the first TestResult: force=self.get_force()
SmtZeroed ==
  /\ In("smooth_move_test", "zeroed")
  /\ Step(Call(get_force, "first"))

\* data = [TestResult(z=self.z, displacement=0, force=...)];
\* target_displacement = inc2dir(target_displacement, direction);
\* self.move_z(target_displacement, direction, wait=False, pre='M300 S440 P20')
SmtFirst ==
  /\ In("smooth_move_test", "first")
  /\ IF Top.direction \notin {"UP", "DOWN"} THEN Throw("AssertionError")
     ELSE LET target == inc2dir(Top.target_displacement, Top.direction)
          IN Step(<<move_z_pre(target, Top.direction, FALSE, <<M300>>)>> \o
                  Replace([Top EXCEPT !.data = <<TestResult(0, z, ret)>>,
                                      !.target_displacement = target,
                                      !.pc = "loop"]))

\* samples of one smooth test that the runs follow, the last one apart
MaxSamples == 3

\* a smooth_move_test that reads on until the force is zero
SmtLoopWhileNonzero ==
  /\ In("smooth_move_test", "loop")
  /\ LET force == Top.data[Len(Top.data)].force
     IN IF force = None THEN Throw("TypeError")
        ELSE IF force2dir(force[1]) # "STILL"
        THEN Len(Top.data) < MaxSamples /\ Step(Call(get_tsforce, "got"))
        ELSE Step(Call(G(<<M400>>, TRUE), "waited"))

\* while force2dir(data[-1].force) == direction: t, f = self.get_tsforce();
\* after the loop self.G('M400')
SmtLoop ==
  /\ In("smooth_move_test", "loop")
  /\ LET force == Top.data[Len(Top.data)].force
     IN IF force = None THEN Throw("TypeError")
        ELSE IF force2dir(force[1]) = Top.direction
        THEN Len(Top.data) < MaxSamples /\ Step(Call(get_tsforce, "got"))
        ELSE Step(Call(G(<<M400>>, TRUE), "waited"))

\* data.append(TestResult(force=f)): z and displacement are left at inf
SmtGot ==
  /\ In("smooth_move_test", "got")
  /\ Step(Replace([Top EXCEPT !.data = Append(@, TestResult(Unset, Unset, ret[2])),
                              !.pc = "loop"]))

\* self.G('M300 S100 P20')
SmtWaited ==
  /\ In("smooth_move_test", "waited")
  /\ Step(Call(G(<<M300>>, TRUE), "beeped"))

\* t, f = self.get_tsforce()
SmtBeeped ==
  /\ In("smooth_move_test", "beeped")
  /\ Step(Call(get_tsforce, "last"))

\* the last TestResult, with z=self.z and displacement=target_displacement;
\* if return_to_zero: self.move_z(target_displacement, direction.flip())
SmtLast ==
  /\ In("smooth_move_test", "last")
  /\ LET f == [Top EXCEPT !.data = Append(@, TestResult(Top.target_displacement, z, ret[2])),
                          !.pc = "end"]
     IN IF Top.return_to_zero
        THEN Step(<<move_z(Top.target_displacement, flip(Top.direction), TRUE)>>
                  \o Replace(f))
        ELSE Step(Replace(f))

\* return data
SmtEnd ==
  /\ In("smooth_move_test", "end")
  /\ Return(Some(Top.data))

\* the forces of a smooth test: a push, nothing, a pull
SmoothForces == {-50000, 0, 50000}

\* the tests that are run: the axis has been zeroed before or not at all
\* (zero_z is false), and the target is 0.2 mm, or nothing
SmoothCalls ==
  { smooth_move_test(t, d, r, FALSE) :
      t \in {0, 32}, d \in {"DOWN", "UP"}, r \in BOOLEAN }

InitSmooth ==
  /\ ProtoReady /\ HistInit /\ SetIdle
  /\ wire = <<>> /\ rt = "run" /\ rterr = "none"
  /\ clock = 0
  /\ \E c \in SmoothCalls : FgInit(caller(c))
  /\ zeroed \in BOOLEAN
  /\ z = IF zeroed THEN 0 ELSE Unset

NextSmooth ==
  \/ \E v \in SmoothForces : Decoded(v)
  \/ PrinterOk
  \/ GfWait \/ GfClear \/ GfRead(TRUE)
  \/ GtWait \/ GtStamp \/ GtClear \/ GtRead
  \/ GWrite \/ GRead
  \/ MzStart \/ MzSent \/ MzTrack
  \/ SmtStart \/ SmtZeroed \/ SmtFirst \/ SmtLoop \/ SmtGot
  \/ SmtWaited \/ SmtBeeped \/ SmtLast \/ SmtEnd

SpecSmooth == InitSmooth /\ [][NextSmooth]_vars

\* the frame of smooth_move_test, right above the caller's, and the results
\* recorded so far
Smt == stack[Len(stack) - 1]
SmtData == IF Len(stack) >= 2 /\ Smt.fn = "smooth_move_test" THEN Smt.data ELSE <<>>

\* the classified direction of the force of a result
Classified(result) == force2dir(result.force[1])

\* C15: the results smooth_move_test returns are the samples it has read, in
\* order and all of them; when the first of these samples (counted from 0,
\* the initial one) whose classified direction differs from the commanded
\* direction is sample k, exactly k + 2 results are returned: every result
\* before the one of sample k has the commanded direction, every result but
\* the last was appended while the one before it had the commanded direction,
\* and the last, read after the loop has ended, has the commanded signed
\* target as its displacement
C15_SmoothLength ==
  /\ [](Done /\ fgerr = "none"
        => LET data == ret[1]
               n == Len(data)
           IN /\ n >= 2
              /\ feed = [i \in 1..n |-> data[i].force]
              /\ \A i \in 1..(n - 2) : Classified(data[i]) = TheCall.direction
              /\ Classified(data[n - 1]) # TheCall.direction
              /\ data[n].displacement
                   = inc2dir(TheCall.target_displacement, TheCall.direction))
  /\ [][(Len(SmtData') > Len(SmtData) /\ Len(SmtData) > 0
         /\ Classified(SmtData[Len(SmtData)]) # Smt.direction)
        => Smt'.pc = "end"]_vars

\* a test has returned four results: the samples 0 and 1 had the commanded
\* direction, sample 2 had not
C15_Witness ==
  /\ Done /\ fgerr = "none" /\ Len(ret[1]) = 4
  /\ Classified(ret[1][2]) = TheCall.direction
  /\ Classified(ret[1][3]) # TheCall.direction
  /\ TheCall.target_displacement # 0

-----------------------------------------------------------------------------
(* The travel of move_z_until *)

\* C25 (as claimed): move_z_until with a max_move moves by at most max_move:
\* the distance it has commanded, the distance it returns and the travel of
\* the actuator are at most max_move in magnitude at every moment of the call
\* and after it
C25_WithinMaxMove ==
  /\ [](\A i \in 1..Len(stack) :
          (stack[i].fn = "move_z_until" /\ stack[i].max_move # None)
          => Abs(stack[i].dist) <= stack[i].max_move[1] /\ Abs(pos) <= stack[i].max_move[1])
  /\ [](Done /\ fgerr = "none" /\ TheCall.fn = "move_z_until"
        => (TheCall.max_move = None \/ Abs(ret[1]) <= TheCall.max_move[1]))

-----------------------------------------------------------------------------
(* The motion of a smooth test *)

\* smooth_move_test has commanded one move, of the whole signed target and
\* without waiting, by the time it reads its samples and until its last result
C26_OneMove ==
  [](Len(stack) >= 2 /\ Smt.fn = "smooth_move_test" /\ fgerr = "none"
     /\ Smt.pc \in {"loop", "got", "waited", "beeped", "last"}
     /\ Smt.target_displacement # 0
     /\ (\A i \in 1..Len(stack) : stack[i].fn # "move_z")
     => /\ sent = 1
        /\ pos = Smt.target_displacement)

\* C26 (as claimed): the 'ok' that smooth_move_test waits for after its loop,
\* before it reads the final sample, is the answer to the M400 it has just
\* written and not an answer still owed for an earlier line: when G reads
\* it, every line written has been answered and no other answer is waiting
C26_AwaitsCompletion ==
  [][(In("G", "read") /\ Top.gcode = <<M400>> /\ Len(stack) >= 2
      /\ stack[2].fn = "smooth_move_test" /\ stack[2].pc = "waited"
      /\ stack' # stack)
     => acks = 1 /\ inflight = 0]_vars

-----------------------------------------------------------------------------
(* The end of a careful test *)

\* C27 (as claimed): careful_move_test on a zeroed axis, called with z = 0 and
\* return_to_zero, returns with z = 0, whatever the pre-move, the steps of
\* the test and move_to_zero have travelled
C27_ReturnsToZero ==
  [](Done /\ fgerr = "none" /\ TheCall.return_to_zero /\ zeroed => z = 0)

\* C30 (as claimed): careful_move_test that read a force of zero at entry
\* steps and records once the pre-move has made contact, whatever
\* min_displacement is (0 included): at the head of the second loop with
\* nothing recorded yet (f is then still the force read at entry) it calls
\* move_one, and the list it returns holds at least one TestResult
C30_RecordsAfterContact ==
  /\ [][(In("careful_move_test", "loop2") /\ Top.data = <<>> /\ Top.f = Some(0)
         /\ stack' # stack)
        => stack'[1].fn = "move_one"]_vars
  /\ [](Done /\ fgerr = "none" => ret[1] # <<>>)

-----------------------------------------------------------------------------
(* The passes of move_to_zero *)

\* the step the k-th pass would use were the steps halved from twice the
\* increment on and kept at MIN_Z_MOVE or above (the first pass halves too)
HalvedStep(start, k) ==
  IF start \div (2 ^ k) >= MIN_Z_MOVE THEN start \div (2 ^ k) ELSE MIN_Z_MOVE

\* C28 (as claimed): the steps of move_to_zero start from twice the fine
\* increment (twice inc when one is given), are halved pass after pass and
\* are never below MIN_Z_MOVE; and each pass moves against the classified
\* direction of the force that is current when the pass reads it
C28_HalvedNotBelowMinimum ==
  /\ [](In("move_to_zero", "loop") /\ Top.passes = 0
        => Top.inc = 2 * (IF Top.arg = None THEN fine_inc ELSE Top.arg[1]))
  /\ [](In("move_to_zero", "call")
        => /\ Top.inc >= MIN_Z_MOVE
           /\ Top.inc = HalvedStep(2 * (IF Top.arg = None THEN fine_inc
                                        ELSE Top.arg[1]), Top.passes))
  /\ [][(In("move_to_zero", "dir") /\ stack' # stack /\ fgerr' = "none")
        => stack'[1].direction = flip(force2dir(_value[1]))]_vars

\* C29 (as claimed): move_to_zero returns once it reads a force of zero or
\* once a bounded search distance is used up.  With the bound at the passes
\* the runs follow and the travel that one pass is allowed: when that many
\* passes are made and that distance is covered, the loop is not at its test
\* with a force that makes it go on
C29_SearchGivesUp ==
  ~( /\ In("move_to_zero", "got") /\ Top.passes >= MaxPasses
     /\ Abs(Top.moved) >= Min(MaxSearch, Abs(coarse_inc * 10))
     /\ ret # None /\ ret # Some(0) )

-----------------------------------------------------------------------------
(* The decoder on a line that loses or gains a byte *)

\* bytes lost or gained within one run
MaxSlips == 1

\* s without its i-th byte, and s with b put before its i-th byte
Without(s, i) == SubSeq(s, 1, i - 1) \o SubSeq(s, i + 1, Len(s))
WithBefore(s, i, b) == SubSeq(s, 1, i - 1) \o <<b>> \o SubSeq(s, i, Len(s))

\* the line drops a byte that the gauge has sent, the decoder being aligned
ByteLost(i) ==
  /\ rt = "run" /\ ready
  /\ slips < MaxSlips
  /\ i \in 1..Len(wire)
  /\ wire' = Without(wire, i)
  /\ slips' = slips + 1
  /\ UNCHANGED <<protoVars, rt, rterr, clock, fgVars, setVars>>
  /\ UNCHANGED <<cur, last, recs, pubs, overloaded, struck, emitted, conns, changes>>

\* the line delivers a byte that the gauge has not sent
ByteGained(i, b) ==
  /\ rt = "run" /\ ready
  /\ slips < MaxSlips
  /\ i \in 1..(Len(wire) + 1)
  /\ wire' = WithBefore(wire, i, b)
  /\ slips' = slips + 1
  /\ UNCHANGED <<protoVars, rt, rterr, clock, fgVars, setVars>>
  /\ UNCHANGED <<cur, last, recs, pubs, overloaded, struck, emitted, conns, changes>>

NextSlip ==
  \/ \E rec \in Records : GaugeSends(rec)
  \/ \E n \in 1..Len(wire) : DataReceived(n)
  \/ \E c \in {"none", "serial", "overload", "parse"} : ConnectionLost(c)
  \/ \E start \in LineStarts : Reconnect(start)
  \/ MainLoop
  \/ \E i \in 1..Len(wire) : ByteLost(i)
  \/ \E i \in 1..(Len(wire) + 1) : ByteGained(i, "0")

SpecSlip == InitDec /\ [][NextSlip]_vars

\* C24 (as claimed): when the stream loses or gains a byte after alignment,
\* the decoder finds the record boundaries again by itself and goes on
\* publishing: data_received raises no conversion error for it, so that the
\* loss is not surfaced as an error and the reader thread does not end on it
C24_DesyncRecovered ==
  [](slips > 0 => rterr # "parse")

\* on a line that loses and gains nothing no conversion error is raised
NoSlipNoParseError ==
  [](slips = 0 /\ rt \in {"run", "raised"} => rterr # "parse")

-----------------------------------------------------------------------------
(* test_loop *)

\* test_loop(z_inc, repetitions, start_direction, test_no, smooth, max_down,
\* max_up, stop_after, **kwargs); of kwargs the frame keeps n_samples (for
\* careful_move_test) and zero_z (for smooth_move_test), as given or as the
\* defaults of the tests.  Beside the locals the frame remembers the tests it
\* has called (runs) and the list each of them returned (halves)
test_loop(z_inc, repetitions, start_direction, test_no, smooth, max_down, max_up, stop_after, n_samples, zero_z) ==
  [fn |-> "test_loop", pc |-> "start", z_inc |-> z_inc,
   repetitions |-> repetitions, start_direction |-> start_direction,
   test_no |-> test_no, smooth |-> smooth, max_down |-> max_down,
   max_up |-> max_up, stop_after |-> stop_after, n_samples |-> n_samples,
   zero_z |-> zero_z,
   data |-> <<>>, direction |-> start_direction, rep |-> test_no,
   max_displacement |-> stop_after, runs |-> <<>>, halves |-> <<>>]

\* test(direction=direction, test_no=rep, min_displacement=max_displacement*.5,
\* stop_after=max_displacement), test being partial(smooth_move_test or
\* careful_move_test, z_inc, return_to_zero=False, **kwargs); smooth_move_test
\* takes min_displacement and stop_after into its own **kwargs and drops them
HalfCycle(f, direction, max_displacement) ==
  IF f.smooth
  THEN smooth_move_test(f.z_inc, direction, FALSE, f.zero_z)
  ELSE careful_move_test(f.z_inc, direction, f.n_samples, FALSE,
                         max_displacement, max_displacement \div 2)

\* what the frame remembers of such a call
Run(f, direction, max_displacement) ==
  [direction |-> direction, test_no |-> f.rep, stop_after |-> max_displacement,
   min_displacement |-> max_displacement \div 2]

\* data = []; direction = start_direction; the check of max_down and max_up;
\* max_displacement = stop_after
TlStart ==
  /\ In("test_loop", "start")
  /\ IF Top.max_down # Top.max_up /\ 0 \in {Top.max_down, Top.max_up}
     THEN Throw("ValueError")
     ELSE Step(Replace([Top EXCEPT !.data = <<>>, !.direction = Top.start_direction,
                                   !.max_displacement = Top.stop_after,
                                   !.rep = Top.test_no, !.pc = "for"]))

\* for rep in range(test_no, repetitions+1): if max_down: max_displacement =
\* max_down; the first test of the cycle; after the loop, return data
TlFor ==
  /\ In("test_loop", "for")
  /\ IF Top.rep > Top.repetitions THEN Return(Some(Top.data))
     ELSE LET m == IF Top.max_down # 0 THEN Top.max_down ELSE Top.max_displacement
          IN Step(<<HalfCycle(Top, Top.direction, m),
                    [Top EXCEPT !.max_displacement = m,
                                !.runs = Append(@, Run(Top, Top.direction, m)),
                                !.pc = "first"]>> \o Tail(stack))

\* data.extend(the list returned); direction = direction.flip(); if max_up:
\* max_displacement = max_up; the second test of the cycle
TlFirst ==
  /\ In("test_loop", "first")
  /\ LET d == flip(Top.direction)
         m == IF Top.max_up # 0 THEN Top.max_up ELSE Top.max_displacement
     IN Step(<<HalfCycle(Top, d, m),
               [Top EXCEPT !.data = @ \o ret[1], !.halves = Append(@, ret[1]),
                           !.direction = d, !.max_displacement = m,
                           !.runs = Append(@, Run(Top, d, m)),
                           !.pc = "second"]>> \o Tail(stack))

\* a test_loop that goes on in the direction of its second test
TlSecondKeepsDirection ==
  /\ In("test_loop", "second")
  /\ Step(Replace([Top EXCEPT !.data = @ \o ret[1], !.halves = Append(@, ret[1]),
                              !.rep = @ + 1, !.pc = "for"]))

\* data.extend(the list returned); direction = direction.flip(); the next rep
TlSecond ==
  /\ In("test_loop", "second")
  /\ Step(Replace([Top EXCEPT !.data = @ \o ret[1], !.halves = Append(@, ret[1]),
                              !.direction = flip(Top.direction),
                              !.rep = @ + 1, !.pc = "for"]))

\* changes of the reported force that the runs of test_loop follow
LoopChanges == 1

\* the loops that are run: smooth tests of 0.2 mm on an axis that is not
\* zeroed again for every test, one or two cycles or none (the first test
\* number is repetitions + 1 then), no caps or both of them
LoopCalls ==
  { test_loop(32, n, d, t, TRUE, c[1], c[2], 64, 1, FALSE) :
      n \in {1, 2}, d \in {"DOWN", "UP"}, t \in {1, 2},
      c \in {<<0, 0>>, <<32, 48>>, <<32, 0>>} }

InitLoop ==
  /\ ProtoReady /\ HistInit /\ SetIdle
  /\ wire = <<>> /\ rt = "run" /\ rterr = "none"
  /\ clock = 0
  /\ \E c \in LoopCalls : FgInit(caller(c))
  /\ zeroed = TRUE /\ z = 0

NextLoop ==
  \/ \E v \in SmoothForces : DecodedFew(v, LoopChanges)
  \/ PrinterOk
  \/ GfWait \/ GfClear \/ GfRead(FALSE)
  \/ GtWait \/ GtStamp \/ GtClear \/ GtRead
  \/ GWrite \/ GRead
  \/ MzStart \/ MzSent \/ MzTrack
  \/ SmtStart \/ SmtZeroed \/ SmtFirst \/ SmtLoop \/ SmtGot
  \/ SmtWaited \/ SmtBeeped \/ SmtLast \/ SmtEnd
  \/ TlStart \/ TlFor \/ TlFirst \/ TlSecond

SpecLoop == InitLoop /\ [][NextLoop]_vars

\* the frame of test_loop when it is the call of the run, right above the
\* caller's
Tl == stack[Len(stack) - 1]
TlRuns == Len(stack) >= 2 /\ Tl.fn = "test_loop" /\ Tl.pc # "start"

\* the lists of a sequence of lists, one after the other
RECURSIVE Concat(_)
Concat(lists) == IF lists = <<>> THEN <<>> ELSE Head(lists) \o Concat(Tail(lists))

C22_CapsFollowDirection ==
  [](TlRuns /\ Tl.max_down # 0 /\ Tl.max_up # 0
     => \A k \in 1..Len(Tl.runs) :
          Tl.runs[k].stop_after = IF Tl.runs[k].direction = "DOWN"
                                  THEN Tl.max_down ELSE Tl.max_up)

-----------------------------------------------------------------------------
(* force_test.py: main, from the zeroing on *)

\* main once it has made the FDMeter and asked for the endstop (no force_info,
\* no first move); test_type is lower case, outfile says whether one is given.
\* data is None before `data = []`; saved is what results_to_json has written
main(test_type, test_direction, test_loops, test_num, n_samples, careful_inc, stop_after, min_down, max_down, max_up, return_to_zero_after_test, smooth_displacement, do_zero, outfile) ==
  [fn |-> "main", pc |-> "start", test_type |-> test_type,
   test_direction |-> test_direction, test_loops |-> test_loops,
   test_num |-> test_num, n_samples |-> n_samples, careful_inc |-> careful_inc,
   stop_after |-> stop_after, min_down |-> min_down, max_down |-> max_down,
   max_up |-> max_up, return_to_zero_after_test |-> return_to_zero_after_test,
   smooth_displacement |-> smooth_displacement, do_zero |-> do_zero,
   outfile |-> outfile, data |-> None, saved |-> None]

\* G: self.printer.write raises (pyserial's SerialException, the port being
\* lost); nothing is written
GWriteRaises ==
  /\ In("G", "write")
  /\ Throw("SerialException")

\* if do_zero and test_type.lower() != 'smooth': meter.zero_z_axis(test_direction)
MainStart ==
  /\ In("main", "start")
  /\ IF Top.do_zero /\ Top.test_type # "smooth"
     THEN IF Top.test_direction \notin {"UP", "DOWN"} THEN Throw("ArgumentError")
          ELSE Step(Call(zero_z_axis(Top.test_direction, TRUE), "zeroed"))
     ELSE Step(At("zeroed"))

\* if not test_type: sys.exit(0); if test_direction != STILL: data = []; the
\* careful test that is run when no loop is asked for, or to find the
\* displacement of a smooth test
MainZeroed ==
  /\ In("main", "zeroed")
  /\ IF Top.test_type = "" \/ Top.test_direction = "STILL" THEN Return(None)
     ELSE IF \/ Top.test_type = "careful" /\ Top.test_loops <= 0
             \/ Top.test_type = "smooth" /\ Top.smooth_displacement = 0
     THEN Step(<<careful_move_test(Top.careful_inc, Top.test_direction,
                                   Top.n_samples, Top.return_to_zero_after_test,
                                   Top.stop_after, Top.min_down),
                 [Top EXCEPT !.data = Some(<<>>), !.pc = "found"]>> \o Tail(stack))
     ELSE Step(Replace([Top EXCEPT !.data = Some(<<>>), !.pc = "loops"]))

\* data = the list careful_move_test returned;
\* smooth_displacement = data[-1].displacement
MainFound ==
  /\ In("main", "found")
  /\ IF ret[1] = <<>> THEN Throw("IndexError")
     ELSE Step(Replace([Top EXCEPT !.data = ret,
                                   !.smooth_displacement = ret[1][Len(ret[1])].displacement,
                                   !.pc = "loops"]))

\* if test_loops > 0: data.extend(meter.test_loop(...))
\* elif smooth: data.extend(meter.smooth_move_test(...)); neither call is
\* given zero_z, which is True by default
MainLoops ==
  /\ In("main", "loops")
  /\ IF Top.test_loops > 0
     THEN Step(Call(test_loop(IF Top.test_type = "smooth" THEN Top.smooth_displacement
                              ELSE Top.careful_inc,
                              Top.test_loops, Top.test_direction, Top.test_num,
                              Top.test_type = "smooth", Top.max_down, Top.max_up,
                              Top.stop_after, Top.n_samples, TRUE),
                    "extend"))
     ELSE IF Top.test_type = "smooth"
     THEN Step(Call(smooth_move_test(Top.smooth_displacement, Top.test_direction,
                                     Top.return_to_zero_after_test, TRUE),
                    "extend"))
     ELSE Step(At("save"))

\* data.extend(what the call returned)
MainExtend ==
  /\ In("main", "extend")
  /\ Step(Replace([Top EXCEPT !.data = Some(@[1] \o ret[1]), !.pc = "save"]))

\* if outfile: results_to_json(test_params, data, outfile); main is over
MainSave ==
  /\ In("main", "save")
  /\ stack' = <<[Top EXCEPT !.saved = IF Top.outfile THEN Top.data ELSE None,
                            !.pc = "exit"]>> \o Tail(stack)
  /\ UNCHANGED <<protoVars, lineVars, clock, histVars, setVars>>
  /\ UNCHANGED <<ret, fgerr, z, zeroed, actVars, feed, retId>>

\* changes of the reported force that the runs of main follow
MainChanges == 4

\* the runs of main: careful tests of one step of 0.1 mm downwards, one test
\* or a loop of one cycle, the axis not zeroed, the results to be saved
MainCalls ==
  { main("careful", "DOWN", loops, 1, 1, 16, 16, 0, 0, 0, TRUE, 0, FALSE, TRUE) :
      loops \in {0, 1} }

InitMain ==
  /\ ProtoReady /\ HistInit /\ SetIdle
  /\ wire = <<>> /\ rt = "run" /\ rterr = "none"
  /\ clock = 0
  /\ \E c \in MainCalls : FgInit(<<c>>)
  /\ zeroed = FALSE /\ z = Unset

NextMain ==
  \/ \E v \in ZeroingForces : DecodedFew(v, MainChanges)
  \/ PrinterOk
  \/ GfWait \/ GfClear \/ GfRead(FALSE)
  \/ SfStart \/ SfFirst \/ SfLoop \/ SfCmp
  \/ GWrite \/ GRead \/ GWriteRaises
  \/ MzStart \/ MzSent \/ MzTrack
  \/ MuStart \/ MuTry
  \/ \E k \in {1, 2} : MuLoop(k)
  \/ \E k \in {1, 2} : MuMoved(k)
  \/ \E k \in {1, 2} : MuGot(k)
  \/ MuCheck \/ MuChecked \/ MuEnd
  \/ MtzStart \/ MtzLoop \/ MtzGot \/ MtzDir \/ MtzCall \/ MtzUntil \/ MtzReturn
  \/ AvgLoop \/ AvgGot
  \/ CmtStart \/ CmtFirst \/ CmtPre \/ CmtPremoved
  \/ CmtLoop1 \/ CmtLoop2
  \/ \E k \in {1, 2} : CmtStepped(k)
  \/ MoStart \/ MoSampled \/ MoMoved
  \/ CmtFinish \/ CmtReport \/ CmtEnd
  \/ TlStart \/ TlFor \/ TlFirst \/ TlSecond
  \/ MainStart \/ MainZeroed \/ MainFound \/ MainLoops \/ MainExtend \/ MainSave

SpecMain == InitMain /\ [][NextMain]_vars

\* the frame of main, and the results main holds: its list `data` and what
\* it has saved
Main == stack[Len(stack)]
MainHolds ==
  (IF Main.data = None THEN <<>> ELSE Main.data[1])
    \o (IF Main.saved = None THEN <<>> ELSE Main.saved[1])

\* the results that the tests under way have recorded so far
Recorded(i) ==
  IF stack[i].fn \in {"test_loop", "careful_move_test", "smooth_move_test"}
  THEN stack[i].data ELSE <<>>

\* C23 (as claimed): when a test sequence fails partway, the failure reaches
\* main and ends the run, no motion command is issued after it, and the
\* TestResults recorded before it are kept: every result that a test or a
\* loop had recorded when it failed is in main's data or in what main saved
C23_FailureKeepsResults ==
  /\ [][fgerr # "none"
        => fgerr' = fgerr /\ stack' = stack /\ sent' = sent /\ pos' = pos]_vars
  /\ [](fgerr # "none" /\ stack # <<>> /\ Main.fn = "main"
        => \A i \in 1..(Len(stack) - 1) : \A k \in 1..Len(Recorded(i)) :
             \E j \in 1..Len(MainHolds) : MainHolds[j] = Recorded(i)[k])

\* after a failure nothing more is done
FailureEndsRun ==
  [][fgerr # "none"
     => fgerr' = fgerr /\ stack' = stack /\ sent' = sent /\ pos' = pos]_vars

-----------------------------------------------------------------------------
(* Direction and force2dir, on every direction and a range of forces *)

\* the members of the Enum
Directions == {"DOWN", "UP", "STILL"}

\* the largest magnitude of the forces classified, in 1e-5 units
MaxDirForce == 20

\* a script that applies the operations of direction.py to d and force and
\* keeps what they return
direction_ops(d, force) ==
  [fn |-> "direction_ops", pc |-> "start", d |-> d, force |-> force,
   flipped |-> None, twice |-> None, s |-> None, fs |-> None, cls |-> None]

\* d.flip()
DirFlip ==
  /\ In("direction_ops", "start")
  /\ Step(Replace([Top EXCEPT !.flipped = Some(flip(Top.d)), !.pc = "flipped"]))

\* d.flip().flip()
DirFlipAgain ==
  /\ In("direction_ops", "flipped")
  /\ Step(Replace([Top EXCEPT !.twice = Some(flip(Top.flipped[1])), !.pc = "sign"]))

\* d.sign and d.flip().sign
DirSign ==
  /\ In("direction_ops", "sign")
  /\ Step(Replace([Top EXCEPT !.s = Some(dir_sign(Top.d)),
                              !.fs = Some(dir_sign(Top.flipped[1])),
                              !.pc = "force"]))

\* force2dir(force)
DirForce ==
  /\ In("direction_ops", "force")
  /\ Step(Replace([Top EXCEPT !.cls = Some(force2dir(Top.force)), !.pc = "end"]))

InitDir ==
  /\ ProtoReady /\ HistInit /\ SetIdle
  /\ wire = <<>> /\ rt = "run" /\ rterr = "none"
  /\ clock = 0
  /\ \E d \in Directions, f \in (-MaxDirForce)..MaxDirForce :
        FgInit(<<direction_ops(d, f)>>)
  /\ zeroed = FALSE /\ z = Unset

NextDir == DirFlip \/ DirFlipAgain \/ DirSign \/ DirForce

SpecDir == InitDir /\ [][NextDir]_vars

\* C31: Direction has three members and its operations stay within them;
\* flip(flip(d)) = d for every d and flip(STILL) = STILL; sign is +1 for UP,
\* -1 for DOWN and 0 for STILL, and sign(flip(d)) = -sign(d); force2dir(f)
\* is STILL exactly when f = 0, and otherwise the direction whose sign is the
\* sign of f
C31_DirectionAlgebra ==
  [](In("direction_ops", "end") =>
       /\ Top.flipped[1] \in Directions /\ Top.cls[1] \in Directions
       /\ Top.twice = Some(Top.d)
       /\ (Top.d = "STILL" => Top.flipped = Some("STILL"))
       /\ Top.s = Some(CASE Top.d = "UP" -> 1 [] Top.d = "DOWN" -> -1
                         [] Top.d = "STILL" -> 0)
       /\ Top.fs[1] = -Top.s[1]
       /\ (Top.cls = Some("STILL") <=> Top.force = 0)
       /\ (Top.force > 0 => dir_sign(Top.cls[1]) = 1)
       /\ (Top.force < 0 => dir_sign(Top.cls[1]) = -1))

\* the operations have been applied to STILL and to a pushing force
C31_Witness ==
  In("direction_ops", "end") /\ Top.d = "STILL" /\ Top.force < 0
    /\ Top.cls = Some("DOWN") /\ Top.twice = Some("STILL")

-----------------------------------------------------------------------------
(* get_tsforce while the decoder thread is inside the value setter *)

InitStamp ==
  /\ ProtoReady /\ HistInit /\ SetIdle
  /\ wire = <<>> /\ rt = "run" /\ rterr = "none"
  /\ clock = 0
  /\ FgInit(caller(get_tsforce)) /\ z = Unset /\ zeroed = FALSE

NextStamp ==
  \/ \E v \in Forces : SetterCall(v)
  \/ SetterValue
  \/ SetterFlag
  \/ GtWait \/ GtStamp \/ GtClear \/ GtRead

SpecStamp == InitStamp /\ [][NextStamp]_vars

\* in these runs only the setter reads the clock, so that the timestamp of
\* the n-th sample published is n, its publication number
StampIsNumber == timestamp = nextId

\* C32 (as claimed): the pair get_tsforce returns is the timestamp and the
\* value of one published sample: the timestamp returned is the one the
\* setter stored for the sample whose value is returned
C32_PairOfOneSample ==
  Done /\ TheCall.fn = "get_tsforce" => ret[1] = retId

-----------------------------------------------------------------------------
(* The direction of a correction pass *)

\* C33 (as claimed): the direction move_to_zero takes for a correction pass
\* is the opposite of the nonzero force it has just read (ret still holds
\* that force when the pass is about to call move_z_until), so it is never
\* STILL, and no move_z_until is called with STILL
C33_PassOpposesForceRead ==
  /\ In("move_to_zero", "call")
       => Top.direction # "STILL" /\ Top.direction = flip(force2dir(ret[1]))
  /\ \A i \in 1..Len(stack) :
       stack[i].fn = "move_z_until" => stack[i].direction # "STILL"

-----------------------------------------------------------------------------
(* The buffer between two calls of data_received *)

\* the bytes handed to data_received in a step
Chunk == SubSeq(wire, 1, Len(wire) - Len(wire'))

\* the stream a data_received call works on, from the aligning '-' on: the
\* buffer and the chunk, less what precedes the first '-' when the decoder
\* was not ready
FromAligned ==
  LET ext == buffer \o Chunk
  IN IF ready THEN ext ELSE From(ext, Index(ext, "-") - 1)

\* C34: whenever the decoder is ready and data_received has returned
\* normally, the buffer holds fewer than 6 bytes and starts on a record
\* boundary: it is the record under way of the stream framed in sixes from
\* the aligning '-' on, and every call that leaves the decoder ready has
\* taken a multiple of 6 bytes off the front of that stream, however the
\* stream is split into chunks
C34_BufferOnBoundary ==
  /\ [](rt = "run" /\ ready => Len(buffer) < RecLen /\ buffer = cur)
  /\ [][(DataStep /\ rt' = "run" /\ ready')
        => LET taken == Len(FromAligned) - Len(buffer')
           IN /\ taken >= 0 /\ taken % RecLen = 0
              /\ taken = RecLen * recs'
              /\ buffer' = From(FromAligned, taken)]_vars

\* a call has completed a record and left the head of the next in the buffer
C34_Witness ==
  rt = "run" /\ ready /\ recs >= 1 /\ buffer # <<>> /\ emitted = 2

\* the k-th record of the stream a data_received call works on
RecordAt(k) == SubSeq(FromAligned, RecLen * (k - 1) + 1, RecLen * k)

\* C35 (as claimed): every complete record received after alignment is
\* checked against the overload threshold: a data_received call in which a
\* record of magnitude MAX_FORCE or more is completed raises the overload
\* error, also when another complete record follows it in the same call
C35_EveryRecordChecked ==
  [][(DataStep /\ (ready \/ Has(buffer \o Chunk, "-"))
      /\ \E k \in 1..(Len(FromAligned) \div RecLen) :
            /\ ForceOf(RecordAt(k)) # None
            /\ Abs(ForceOf(RecordAt(k))[1]) >= MAX_FORCE)
     => rt' = "raised" /\ rterr' = "overload"]_vars

====
